---- MODULE Spec2Model ----
(***************************************************************************)
(* Model of the simplesftp download engine (src/src/download_manager.rs)   *)
(* together with the controller handlers of src/src/main.rs that feed it   *)
(* commands and consume its events.                                        *)
(*                                                                         *)
(* The dispatcher (DownloadManager::run / handle_command / process_queue)  *)
(* is one process that handles one command per step.  Every spawned        *)
(* download_file task is a worker whose steps are the stretches of code    *)
(* between two await points that touch shared state.  The controller       *)
(* (SftpApp::update) is one process that handles one message per step.     *)
(***************************************************************************)
EXTENDS Integers, Sequences, FiniteSets, TLC

(***************************************************************************)
(* Program constants.                                                      *)
(***************************************************************************)
CHUNK_SIZE == 65536
MAX_CONCURRENT == 2
CHANNEL_CAPACITY == 100

(***************************************************************************)
(* Bounds of the exploration.                                              *)
(*  MaxOps    : the user, the clock and the settings together issue at    *)
(*              most MaxOps messages to the controller, a scan result      *)
(*              counting once per file it lists and an item left by an     *)
(*              earlier session counting twice (it was queued and started).*)
(*  MaxLocalLen : a local file that grew past every remote length is kept  *)
(*              at this length (the code only compares it with size_bytes).*)
(*  MaxEvents : senders of events wait while MaxEvents events are unread   *)
(*              (the real channel makes them wait at CHANNEL_CAPACITY).    *)
(*  MaxLate   : the count of Progress events sent for a key marked paused  *)
(*              stops at MaxLate.                                          *)
(***************************************************************************)
MaxOps == 3
MaxLocalLen == 200000
MaxEvents == 1
MaxLate == 2

(***************************************************************************)
(* Unsigned 64-bit arithmetic (Rust u64).  A number is written in base     *)
(* 1024 as seven limbs, least significant first; limbs 1 to 6 are below    *)
(* 1024 and a u64 has its seventh limb below 16 (6 * 10 + 4 = 64 bits).    *)
(* Intermediate results keep the excess in the seventh limb, so that an    *)
(* overflow of the 64 bits can be seen before the value is wrapped.        *)
(***************************************************************************)
LIMB_BASE == 1024
LIMBS == 7
TOP_LIMB_BASE == 16
U64_BITS == 64

RECURSIVE Carry(_, _, _)
Carry(x, i, c) ==
    IF i = LIMBS THEN [x EXCEPT ![i] = x[i] + c]
    ELSE Carry([x EXCEPT ![i] = (x[i] + c) % LIMB_BASE], i + 1,
               (x[i] + c) \div LIMB_BASE)
Normalize(x) == Carry(x, 1, 0)

(* A small natural (below 2^31) as limbs. *)
U64Of(n) == Normalize(<<n % LIMB_BASE, n \div LIMB_BASE, 0, 0, 0, 0, 0>>)
U64_MAX ==
    LET L(i) == IF i = LIMBS THEN TOP_LIMB_BASE - 1 ELSE LIMB_BASE - 1
    IN  <<L(1), L(2), L(3), L(4), L(5), L(6), L(7)>>
(* 2^e as limbs, 0 <= e < 64. *)
PowerOfTwo(e) ==
    LET L(i) == IF i = (e \div 10) + 1 THEN 2 ^ (e % 10) ELSE 0
    IN  <<L(1), L(2), L(3), L(4), L(5), L(6), L(7)>>

Overflows(x) == x[LIMBS] >= TOP_LIMB_BASE
Wrapped(x) == [x EXCEPT ![LIMBS] = x[LIMBS] % TOP_LIMB_BASE]
IsZero(x) == \A i \in 1..LIMBS : x[i] = 0

BigAdd(x, y) ==
    Normalize(<<x[1] + y[1], x[2] + y[2], x[3] + y[3], x[4] + y[4],
                x[5] + y[5], x[6] + y[6], x[7] + y[7]>>)
(* x >= y *)
BigSub(x, y) ==
    Normalize(<<x[1] - y[1], x[2] - y[2], x[3] - y[3], x[4] - y[4],
                x[5] - y[5], x[6] - y[6], x[7] - y[7]>>)
(* c below 2^20 *)
BigMulSmall(x, c) ==
    Normalize(<<x[1] * c, x[2] * c, x[3] * c, x[4] * c, x[5] * c, x[6] * c,
                x[7] * c>>)
BigLess(x, y) ==
    \E i \in 1..LIMBS : x[i] < y[i] /\ \A j \in (i + 1)..LIMBS : x[j] = y[j]

BigLessEq(x, y) == x = y \/ BigLess(x, y)

(* Long division, limb by limb from the top; y is not zero.  Digit is the  *)
(* largest d below 1024 with d * y <= r, found bit by bit; DivLimbs(x, y,  *)
(* i) is the quotient and remainder of the limbs i and above of x.         *)
RECURSIVE Digit(_, _, _, _)
Digit(r, y, bit, acc) ==
    IF bit < 0 THEN acc
    ELSE IF BigLessEq(BigMulSmall(y, acc + 2 ^ bit), r)
    THEN Digit(r, y, bit - 1, acc + 2 ^ bit)
    ELSE Digit(r, y, bit - 1, acc)

RECURSIVE DivLimbs(_, _, _)
DivLimbs(x, y, i) ==
    IF i > LIMBS THEN [q |-> U64Of(0), r |-> U64Of(0)]
    ELSE LET s == DivLimbs(x, y, i + 1)
             up == BigMulSmall(s.r, LIMB_BASE)
             r2 == [up EXCEPT ![1] = x[i]]
             d == IF BigLess(r2, y) THEN 0 ELSE Digit(r2, y, 9, 0)
         IN  [q |-> [s.q EXCEPT ![i] = d],
              r |-> BigSub(r2, BigMulSmall(y, d))]
BigDiv(x, y) == DivLimbs(x, y, 1).q

(***************************************************************************)
(* The remote files of the explored world: key -> length in bytes.  One    *)
(* file needs two chunks (the second one partial), one is exactly one      *)
(* chunk long, one is empty, one needs three chunks.                       *)
(***************************************************************************)
Keys == {"a", "b", "c", "d"}
RemoteSize == [k \in Keys |-> CASE k = "a" -> 100000
                                [] k = "b" -> 65536
                                [] k = "c" -> 0
                                [] OTHER   -> 140000]
SpeedLimits == {U64Of(0), U64Of(64)}
(* The scan results offered: one file, or the folder holding all three. *)
Scans == {<<"a">>, <<"a", "b", "c">>}

NotPaused == -1     \* paused_downloads has no entry for the key
NoFile == -1        \* no local file at {local_location}/{filename}

Min(x, y) == IF x < y THEN x ELSE y

VARIABLES
    queue,              \* DownloadManager.queue : Seq of QueueItem
    active_downloads,   \* DownloadManager.active_downloads : set of keys
    paused_downloads,   \* DownloadManager.paused_downloads : key -> offset | NotPaused
    cancelled,          \* DownloadManager.cancelled : set of keys
    is_global_paused,   \* DownloadManager.is_global_paused
    speed_limit,        \* DownloadManager.speed_limit (KB/s)
    cmd_chan,           \* the command channel (mpsc, FIFO)
    event_chan,         \* the event channel (mpsc, FIFO)
    workers,            \* key -> Seq of live download_file tasks [pc, bytes,
                        \*        reported: bytes of its last Progress, or its start]
    local_file,         \* key -> length of the local file | NoFile
    local_intact,       \* key -> the local file's bytes are the first bytes of
                        \*        the remote file
    queue_items,        \* SftpApp.queue_items : Seq of QueueItem
    is_downloading,     \* SftpApp.is_downloading (download_tx is Some)
    last_schedule_allowed, \* SftpApp.last_schedule_allowed
    is_connected,       \* SftpApp.is_connected (sftp_client is Some)
    verification,       \* the queue verification after connect: its phase and
                        \* the (path, exists, size) results in flight
    schedule,           \* SftpApp.config.schedule
    loaded_queue,       \* history: the items load_queue returned at the start
    download_stats,     \* AppConfig.download_stats : Seq of DailyStat
    average_speed,      \* the outcome of the last get_average_speed call
    throttle,           \* download_file: the speed limit loaded, the pause
                        \* slept and the outcome of the chunk last read
    server_dir,         \* the entries the server lists for the directory
    remote_files,       \* SftpApp.remote_files: the outcome of list_dir
    server_tree,        \* the directory tree of the server: path -> kind
    scan,               \* recursive_scan: its stack, its files, its outcome
    lastEv,             \* history: key -> kind of the last event emitted for it
    owed,               \* history: keys active when the last PauseAll was handled
    resumedAll,         \* history: a ResumeAll was handled after that PauseAll
    late,               \* history: key -> Progress events sent while the key was
                        \*          marked paused, since the mark last changed
    ops                 \* history: messages issued by user, clock and settings

engineVars == <<queue, active_downloads, paused_downloads, cancelled,
                is_global_paused, speed_limit>>
fileVars == <<local_file, local_intact>>
statVars == <<download_stats, average_speed>>
listVars == <<server_dir, remote_files, server_tree, scan>>
sideVars == <<schedule, loaded_queue, statVars, throttle, listVars>>
sessVars == <<is_connected, verification, sideVars>>
ctlVars == <<queue_items, is_downloading, last_schedule_allowed,
             is_connected, verification, sideVars>>
evHist == <<lastEv, owed, resumedAll, late>>
histVars == <<lastEv, owed, resumedAll, late, ops>>
vars == <<queue, active_downloads, paused_downloads, cancelled,
          is_global_paused, speed_limit, cmd_chan, event_chan, workers,
          local_file, local_intact, queue_items, is_downloading,
          last_schedule_allowed, is_connected, verification, schedule,
          loaded_queue, download_stats, average_speed, throttle, server_dir,
          remote_files, server_tree, scan, lastEv, owed, resumedAll, late,
          ops>>

(***************************************************************************)
(* Data.                                                                   *)
(***************************************************************************)
QueueItem(k, size, bytes, st) ==
    [remote_file |-> k, size_bytes |-> size, bytes_downloaded |-> bytes,
     status |-> st]

Cmd(t, k) == [type |-> t, key |-> k]
CmdAddItem(item) == [type |-> "AddItem", key |-> item.remote_file, item |-> item]
CmdTaskPaused(k, off) == [type |-> "TaskPaused", key |-> k, offset |-> off]
CmdSetSpeedLimit(l) == [type |-> "SetSpeedLimit", key |-> "", limit |-> l]

Ev(t, k) == [type |-> t, key |-> k]
EvProgress(k, b) == [type |-> "Progress", key |-> k, bytes_downloaded |-> b]

FinalEvents == {"Completed", "Failed", "Paused"}

KeysOf(q) == {q[i].remote_file : i \in 1..Len(q)}
IndexOf(q, k) ==
    IF k \in KeysOf(q)
    THEN CHOOSE i \in 1..Len(q) :
             /\ q[i].remote_file = k
             /\ \A j \in 1..(i - 1) : q[j].remote_file # k
    ELSE 0
RECURSIVE Retain(_, _)
Retain(q, k) ==
    IF q = <<>> THEN <<>>
    ELSE IF Head(q).remote_file = k THEN Retain(Tail(q), k)
    ELSE <<Head(q)>> \o Retain(Tail(q), k)

PausedKeys == {k \in Keys : paused_downloads[k] # NotPaused}

(* tokio mpsc try_send: the message is dropped when the channel is full. *)
TrySend(ch, c) == IF Len(ch) < CHANNEL_CAPACITY THEN Append(ch, c) ELSE ch

(* The events a step appended to the event channel. *)
NewEvents ==
    IF Len(event_chan') > Len(event_chan)
    THEN SubSeq(event_chan', Len(event_chan) + 1, Len(event_chan'))
    ELSE <<>>
Emitted(t, k) == \E i \in 1..Len(NewEvents) : NewEvents[i].type = t /\ NewEvents[i].key = k
EmittedAny(k) == \E i \in 1..Len(NewEvents) : NewEvents[i].key = k



(***************************************************************************)
(* What the process finds when it starts: queue.json (load_queue) and the  *)
(* files of the download folder.  Either there is no queue, or the         *)
(* earlier session left one item:                                          *)
(*   d Downloading, saved at 65536, file of 131072 bytes (killed while     *)
(*     transferring, after a pause and resume at 65536);                   *)
(*   d Downloading, saved at 0, file of 65536 bytes (killed after the      *)
(*     first chunk);                                                       *)
(*   d Paused at 65536, file of 65536 bytes, listed without a size         *)
(*     (stat.size was None, so size_bytes is 0);                           *)
(*   c Pending, no file.                                                   *)
(***************************************************************************)
NoFiles == [k \in Keys |-> NoFile]
Persisted ==
    { [items |-> <<>>, files |-> NoFiles],
      [items |-> <<QueueItem("d", RemoteSize["d"], CHUNK_SIZE, "Downloading")>>,
       files |-> [NoFiles EXCEPT !["d"] = 2 * CHUNK_SIZE]],
      [items |-> <<QueueItem("d", RemoteSize["d"], 0, "Downloading")>>,
       files |-> [NoFiles EXCEPT !["d"] = CHUNK_SIZE]],
      [items |-> <<QueueItem("d", 0, CHUNK_SIZE, "Paused")>>,
       files |-> [NoFiles EXCEPT !["d"] = CHUNK_SIZE]],
      [items |-> <<QueueItem("c", RemoteSize["c"], 0, "Pending")>>,
       files |-> NoFiles] }

(* AppConfig::load: the schedule of the configuration file. *)
LoadedSchedule ==
    [mode |-> "Daily",
     start_time |-> [hour |-> 22, minute |-> 0],
     end_time |-> [hour |-> 5, minute |-> 0],
     days |-> {"Mon", "Tue", "Wed", "Thu"}]

(* SftpApp::default and, at the first start_manager, DownloadManager::new. *)
BootApp(p, sched) ==
    /\ queue = <<>>
    /\ active_downloads = {}
    /\ paused_downloads = [k \in Keys |-> NotPaused]
    /\ cancelled = {}
    /\ is_global_paused = FALSE
    /\ speed_limit = U64Of(0)
    /\ cmd_chan = <<>>
    /\ event_chan = <<>>
    /\ workers = [k \in Keys |-> <<>>]
    /\ local_file = p.files
    /\ local_intact = [k \in Keys |-> TRUE]
    /\ queue_items = p.items
    /\ is_downloading = FALSE
    /\ last_schedule_allowed = TRUE
    /\ is_connected = FALSE
    /\ verification = [phase |-> "none", results |-> <<>>]
    /\ schedule = sched
    /\ loaded_queue = p.items
    /\ lastEv = [k \in Keys |-> "None"]
    /\ owed = {}
    /\ resumedAll = FALSE
    /\ late = [k \in Keys |-> 0]

NotCalled == [kind |-> "none"]
NoDirectory == [name |-> <<>>, entries |-> <<>>]
NoTree == <<>>

(* No statistics recorded, no chunk read and no directory listed yet; an   *)
(* item left by an earlier session has used up two messages.               *)
Boot(p, sched) ==
    /\ BootApp(p, sched)
    /\ ops = 2 * Len(p.items)
    /\ download_stats = <<>>
    /\ average_speed = NotCalled
    /\ throttle = NotCalled
    /\ server_dir = NoDirectory
    /\ remote_files = NotCalled
    /\ server_tree = NoTree
    /\ scan = NotCalled

Init == \E p \in Persisted : Boot(p, LoadedSchedule)


(***************************************************************************)
(* The dispatcher: DownloadManager::process_queue.                         *)
(***************************************************************************)
HasCapacity_OffByOne(act) == Cardinality(act) <= MAX_CONCURRENT

HasCapacity(act) == Cardinality(act) < MAX_CONCURRENT

Eligible(item, act, pz, cz) ==
    /\ item.status = "Pending"
    /\ item.remote_file \notin act
    /\ pz[item.remote_file] = NotPaused
    /\ item.remote_file \notin cz

(* Lines 183-197: the stored offset, or the size of a partial local file. *)
StartOffset(item, pz) ==
    LET k == item.remote_file
        o == IF pz[k] # NotPaused THEN pz[k] ELSE item.bytes_downloaded
    IN  IF /\ o = 0
           /\ local_file[k] # NoFile
           /\ local_file[k] > 0
           /\ local_file[k] < item.size_bytes
        THEN local_file[k]
        ELSE o

LoopEntered_IgnoresPause(act, gp) == HasCapacity(act)

LoopEntered(act, gp) == HasCapacity(act) /\ ~gp

(* As process_queue, but taking the eligible item inserted last. *)
RECURSIVE process_queue_LastFirst(_, _, _, _, _, _)
process_queue_LastFirst(q, act, pz, cz, gp, acc) ==
    IF LoopEntered(act, gp)
    THEN LET cand == {i \in 1..Len(q) : Eligible(q[i], act, pz, cz)}
         IN  IF cand = {}
             THEN [active |-> act, starts |-> acc]
             ELSE LET i == CHOOSE n \in cand : \A m \in cand : n >= m
                      item == q[i]
                  IN  process_queue_LastFirst(q, act \cup {item.remote_file},
                          pz, cz, gp,
                          Append(acc, [key |-> item.remote_file,
                                       offset |-> StartOffset(item, pz)]))
    ELSE [active |-> act, starts |-> acc]

(* The while loop; acc collects the workers spawned, in order. *)
RECURSIVE process_queue(_, _, _, _, _, _)
process_queue(q, act, pz, cz, gp, acc) ==
    IF LoopEntered(act, gp)
    THEN LET cand == {i \in 1..Len(q) : Eligible(q[i], act, pz, cz)}
         IN  IF cand = {}
             THEN [active |-> act, starts |-> acc]
             ELSE LET i == CHOOSE n \in cand : \A m \in cand : n <= m
                      item == q[i]
                  IN  process_queue(q, act \cup {item.remote_file}, pz, cz, gp,
                          Append(acc, [key |-> item.remote_file,
                                       offset |-> StartOffset(item, pz)]))
    ELSE [active |-> act, starts |-> acc]

NoDispatch(act) == [active |-> act, starts |-> <<>>]

(* A worker between its insert into paused_downloads (line 292) and its    *)
(* return (line 306) owns the guard of the paused_downloads mutex.         *)
PausedLocked ==
    \E k \in Keys : \E i \in 1..Len(workers[k]) :
        workers[k][i].pc \in {"send_paused", "send_task_paused"}

StartedKeys(starts) == {starts[i].key : i \in 1..Len(starts)}
StartOf(starts, k) == starts[CHOOSE i \in 1..Len(starts) : starts[i].key = k]
StartedEvents(starts) == [i \in 1..Len(starts) |-> Ev("Started", starts[i].key)]

(* The effects of one handled command: the dispatcher's new fields, the    *)
(* Started events sent and the tasks spawned by process_queue (r).         *)
Commit(q, pz, cz, gp, r, needsPausedLock, ow, ra) ==
    /\ needsPausedLock => ~PausedLocked
    /\ Len(event_chan) + Len(r.starts) <= MaxEvents
    /\ cmd_chan' = Tail(cmd_chan)
    /\ queue' = q
    /\ active_downloads' = r.active
    /\ paused_downloads' = pz
    /\ cancelled' = cz
    /\ is_global_paused' = gp
    /\ event_chan' = event_chan \o StartedEvents(r.starts)
    /\ workers' = [k \in Keys |->
           IF k \in StartedKeys(r.starts)
           THEN Append(workers[k],
                       [pc |-> "connect", bytes |-> StartOf(r.starts, k).offset,
                        reported |-> StartOf(r.starts, k).offset])
           ELSE workers[k]]
    /\ lastEv' = [k \in Keys |->
           IF k \in StartedKeys(r.starts) THEN "Started" ELSE lastEv[k]]
    /\ owed' = ow \ StartedKeys(r.starts)
    /\ resumedAll' = (ra /\ owed' # {})
    /\ late' = [k \in Keys |->
           IF pz[k] # paused_downloads[k] \/ k \in StartedKeys(r.starts)
           THEN 0 ELSE late[k]]
    /\ UNCHANGED <<fileVars, ctlVars, ops>>

Receives(t) == cmd_chan # <<>> /\ Head(cmd_chan).type = t

(***************************************************************************)
(* DownloadManager::handle_command, one action per command.                *)
(***************************************************************************)
HandleStartAll ==
    /\ Receives("StartAll")
    /\ Commit(queue, paused_downloads, cancelled, FALSE,
              process_queue(queue, active_downloads, paused_downloads,
                            cancelled, FALSE, <<>>),
              LoopEntered(active_downloads, FALSE), owed, resumedAll)
    /\ UNCHANGED speed_limit

HandlePauseAll ==
    /\ Receives("PauseAll")
    /\ Commit(queue,
              [k \in Keys |-> IF k \in active_downloads THEN 0
                              ELSE paused_downloads[k]],
              cancelled, TRUE, NoDispatch(active_downloads), TRUE,
              active_downloads, FALSE)
    /\ UNCHANGED speed_limit

HandleResumeAll ==
    /\ Receives("ResumeAll")
    /\ LET pz == [k \in Keys |-> NotPaused]
       IN  Commit(queue, pz, cancelled, FALSE,
                  process_queue(queue, active_downloads, pz, cancelled,
                                FALSE, <<>>),
                  TRUE, owed, TRUE)
    /\ UNCHANGED speed_limit

(* As HandlePause, but the item leaves the queue. *)
HandlePause_Dequeues ==
    /\ Receives("Pause")
    /\ LET path == Head(cmd_chan).key
       IN  Commit(Retain(queue, path),
                  [paused_downloads EXCEPT ![path] = 0], cancelled,
                  is_global_paused, NoDispatch(active_downloads), TRUE,
                  owed \ {path}, resumedAll)
    /\ UNCHANGED speed_limit

HandlePause ==
    /\ Receives("Pause")
    /\ LET path == Head(cmd_chan).key
       IN  Commit(queue, [paused_downloads EXCEPT ![path] = 0], cancelled,
                  is_global_paused, NoDispatch(active_downloads), TRUE,
                  owed \ {path}, resumedAll)
    /\ UNCHANGED speed_limit

HandleResume ==
    /\ Receives("Resume")
    /\ LET path == Head(cmd_chan).key
           pz == [paused_downloads EXCEPT ![path] = NotPaused]
       IN  Commit(queue, pz, cancelled, is_global_paused,
                  process_queue(queue, active_downloads, pz, cancelled,
                                is_global_paused, <<>>),
                  TRUE, owed, resumedAll)
    /\ UNCHANGED speed_limit

HandleCancel ==
    /\ Receives("Cancel")
    /\ LET path == Head(cmd_chan).key
       IN  Commit(Retain(queue, path), paused_downloads,
                  cancelled \cup {path}, is_global_paused,
                  NoDispatch(active_downloads), FALSE,
                  owed \ {path}, resumedAll)
    /\ UNCHANGED speed_limit

AddItemAccepted(q, act, item) ==
    /\ item.remote_file \notin KeysOf(q)
    /\ item.remote_file \notin act

HandleAddItem ==
    /\ Receives("AddItem")
    /\ LET item == Head(cmd_chan).item
       IN  IF AddItemAccepted(queue, active_downloads, item)
           THEN LET q == Append(queue, item)
                IN  Commit(q, paused_downloads, cancelled, is_global_paused,
                           process_queue(q, active_downloads, paused_downloads,
                                         cancelled, is_global_paused, <<>>),
                           LoopEntered(active_downloads, is_global_paused),
                           owed, resumedAll)
           ELSE Commit(queue, paused_downloads, cancelled, is_global_paused,
                       NoDispatch(active_downloads), FALSE, owed, resumedAll)
    /\ UNCHANGED speed_limit

(* Lines 143-151: no dispatch follows. *)
HandleTaskPaused ==
    /\ Receives("TaskPaused")
    /\ LET c == Head(cmd_chan)
           i == IndexOf(queue, c.key)
           q == IF i = 0 THEN queue
                ELSE [queue EXCEPT ![i].bytes_downloaded = c.offset]
       IN  Commit(q, paused_downloads, cancelled, is_global_paused,
                  NoDispatch(active_downloads \ {c.key}), FALSE,
                  owed, resumedAll)
    /\ UNCHANGED speed_limit

HandleTaskDone ==
    /\ Receives("TaskDone")
    /\ LET act == active_downloads \ {Head(cmd_chan).key}
       IN  Commit(queue, paused_downloads, cancelled, is_global_paused,
                  process_queue(queue, act, paused_downloads, cancelled,
                                is_global_paused, <<>>),
                  LoopEntered(act, is_global_paused), owed, resumedAll)
    /\ UNCHANGED speed_limit

HandleSetSpeedLimit ==
    /\ Receives("SetSpeedLimit")
    /\ Commit(queue, paused_downloads, cancelled, is_global_paused,
              NoDispatch(active_downloads), FALSE, owed, resumedAll)
    /\ speed_limit' = Head(cmd_chan).limit


(***************************************************************************)
(* SftpClient::download_chunk as the worker sees it.  The remote read      *)
(* returns the bytes left up to chunk_size (a read that fills the buffer   *)
(* unless the file ends); 0 bytes is a clean EOF and leaves the local file *)
(* alone.  The local file is created (truncated) at offset 0 and opened    *)
(* for append, without create, at any other offset.                        *)
(***************************************************************************)
BytesRead(k, offset) ==
    IF offset >= RemoteSize[k] THEN 0
    ELSE Min(CHUNK_SIZE, RemoteSize[k] - offset)

AppendFails(k, offset) == offset # 0 /\ local_file[k] = NoFile

(* File::create truncates; an append lands at the end of the file, so the *)
(* bytes read at the remote offset continue the file only when the file   *)
(* ends at that offset.                                                    *)
IntactAfterWrite(k, offset) ==
    IF offset = 0 THEN TRUE ELSE local_intact[k] /\ offset = local_file[k]

LocalSize(k) == IF local_file[k] = NoFile THEN 0 ELSE local_file[k]

LocalAfterWrite(k, offset, n) ==
    IF offset = 0 THEN n ELSE Min(local_file[k] + n, MaxLocalLen)

(***************************************************************************)
(* DownloadManager::download_file: the worker i of key k.                  *)
(***************************************************************************)
Worker(k, i) == workers[k][i]
At(k, i, pc) == i \in 1..Len(workers[k]) /\ workers[k][i].pc = pc
Goto(k, i, pc) == workers' = [workers EXCEPT ![k][i].pc = pc]
Exit(k, i) ==
    workers' = [workers EXCEPT ![k] =
        [j \in 1..(Len(workers[k]) - 1) |->
            IF j < i THEN workers[k][j] ELSE workers[k][j + 1]]]

SendEvent(e) ==
    /\ Len(event_chan) < MaxEvents
    /\ event_chan' = Append(event_chan, e)
    /\ lastEv' = [lastEv EXCEPT ![e.key] = e.type]
    /\ late' = IF e.type = "Progress" /\ paused_downloads[e.key] # NotPaused
               THEN [late EXCEPT ![e.key] = Min(late[e.key] + 1, MaxLate)]
               ELSE late

SendCommand(c) ==
    /\ Len(cmd_chan) < CHANNEL_CAPACITY
    /\ cmd_chan' = Append(cmd_chan, c)

(* Lines 253-280: connect; failure leads to Failed and TaskDone. *)
WConnect(k, i) ==
    /\ At(k, i, "connect")
    /\ \E ok \in BOOLEAN : Goto(k, i, IF ok THEN "check" ELSE "send_failed")
    /\ UNCHANGED <<engineVars, cmd_chan, event_chan, fileVars, ctlVars, histVars>>

WCheck_NoPauseProbe(k, i) ==
    /\ At(k, i, "check")
    /\ ~PausedLocked
    /\ IF k \in cancelled
       THEN SendCommand(Cmd("TaskDone", k)) /\ Exit(k, i)
       ELSE Goto(k, i, "chunk") /\ UNCHANGED cmd_chan
    /\ UNCHANGED <<engineVars, event_chan, fileVars, ctlVars, histVars>>

(* Lines 286-317: the pause probe, then the cancel probe.  A paused worker *)
(* drops the guard and locks again before it stores its offset.  A         *)
(* cancelled worker sends TaskDone and returns without any event.          *)
WCheck(k, i) ==
    /\ At(k, i, "check")
    /\ ~PausedLocked
    /\ IF paused_downloads[k] # NotPaused
       THEN Goto(k, i, "store_pause") /\ UNCHANGED cmd_chan
       ELSE IF k \in cancelled
       THEN SendCommand(Cmd("TaskDone", k)) /\ Exit(k, i)
       ELSE Goto(k, i, "chunk") /\ UNCHANGED cmd_chan
    /\ UNCHANGED <<engineVars, event_chan, fileVars, ctlVars, histVars>>

(* Lines 292-293. *)
WStorePause(k, i) ==
    /\ At(k, i, "store_pause")
    /\ ~PausedLocked
    /\ paused_downloads' = [paused_downloads EXCEPT ![k] = Worker(k, i).bytes]
    /\ Goto(k, i, "send_paused")
    /\ UNCHANGED <<queue, active_downloads, cancelled, is_global_paused,
                   speed_limit, cmd_chan, event_chan, fileVars, ctlVars,
                   histVars>>

(* Lines 294-298. *)
WSendPaused(k, i) ==
    /\ At(k, i, "send_paused")
    /\ SendEvent(Ev("Paused", k))
    /\ Goto(k, i, "send_task_paused")
    /\ UNCHANGED <<engineVars, cmd_chan, fileVars, ctlVars, owed, resumedAll, ops>>

(* Lines 300-306. *)
WSendTaskPaused(k, i) ==
    /\ At(k, i, "send_task_paused")
    /\ SendCommand(CmdTaskPaused(k, Worker(k, i).bytes))
    /\ Exit(k, i)
    /\ UNCHANGED <<engineVars, event_chan, fileVars, ctlVars, histVars>>

(* Lines 355-366 and 391: one chunk transfer and its outcome. *)
WChunk(k, i) ==
    /\ At(k, i, "chunk")
    /\ LET offset == Worker(k, i).bytes
           n == BytesRead(k, offset)
       IN  \/ /\ Goto(k, i, "send_failed")
              /\ UNCHANGED fileVars
           \/ /\ n = 0
              /\ Goto(k, i, "send_completed")
              /\ UNCHANGED fileVars
           \/ /\ n > 0
              /\ ~AppendFails(k, offset)
              /\ local_file' = [local_file EXCEPT ![k] = LocalAfterWrite(k, offset, n)]
              /\ local_intact' = [local_intact EXCEPT ![k] = IntactAfterWrite(k, offset)]
              /\ workers' = [workers EXCEPT ![k][i].pc = "send_progress",
                                             ![k][i].bytes = offset + n]
    /\ UNCHANGED <<engineVars, cmd_chan, event_chan, ctlVars, histVars>>

(* Lines 393-398. *)
WSendProgress(k, i) ==
    /\ At(k, i, "send_progress")
    /\ SendEvent(EvProgress(k, Worker(k, i).bytes))
    /\ workers' = [workers EXCEPT ![k][i].pc = "check",
                                   ![k][i].reported = Worker(k, i).bytes]
    /\ UNCHANGED <<engineVars, cmd_chan, fileVars, ctlVars, owed, resumedAll, ops>>

WSendCompleted_NoBreak(k, i) ==
    /\ At(k, i, "send_completed")
    /\ SendEvent(Ev("Completed", k))
    /\ Goto(k, i, "check")
    /\ UNCHANGED <<engineVars, cmd_chan, fileVars, ctlVars, owed, resumedAll, ops>>

(* Lines 370-374. *)
WSendCompleted(k, i) ==
    /\ At(k, i, "send_completed")
    /\ SendEvent(Ev("Completed", k))
    /\ Goto(k, i, "send_done")
    /\ UNCHANGED <<engineVars, cmd_chan, fileVars, ctlVars, owed, resumedAll, ops>>

(* Lines 261-266, 271-276, 401-406, 411-416. *)
WSendFailed(k, i) ==
    /\ At(k, i, "send_failed")
    /\ SendEvent(Ev("Failed", k))
    /\ Goto(k, i, "send_done")
    /\ UNCHANGED <<engineVars, cmd_chan, fileVars, ctlVars, owed, resumedAll, ops>>

(* As WSendDone, but the task goes on with its loop. *)
WSendDone_NoBreak(k, i) ==
    /\ At(k, i, "send_done")
    /\ SendCommand(Cmd("TaskDone", k))
    /\ Goto(k, i, "check")
    /\ UNCHANGED <<engineVars, event_chan, fileVars, ctlVars, histVars>>

(* Lines 267, 277, 375, 407, 417. *)
WSendDone(k, i) ==
    /\ At(k, i, "send_done")
    /\ SendCommand(Cmd("TaskDone", k))
    /\ Exit(k, i)
    /\ UNCHANGED <<engineVars, event_chan, fileVars, ctlVars, histVars>>


(***************************************************************************)
(* The scheduler: Scheduler::is_allowed (scheduler.rs).                    *)
(*                                                                         *)
(* now is a DateTime<Local>: its weekday, hour and minute, and since it    *)
(* carries the local time zone, shift: the UTC offset at now minus the     *)
(* UTC offset 24 hours earlier, in minutes (0 unless a daylight-saving     *)
(* change lies within the last 24 hours).                                  *)
(***************************************************************************)
Weekdays == <<"Mon", "Tue", "Wed", "Thu", "Fri", "Sat", "Sun">>
DayNumber(d) == CHOOSE i \in 1..7 : Weekdays[i] = d
DaysBefore(d, n) == Weekdays[((DayNumber(d) - 1 - n + 14) % 7) + 1]

MINUTES_PER_DAY == 1440

(* hour as u32 * 60 + minute as u32: the u8 operands are widened first, so *)
(* the sum is at most 255 * 60 + 255 and never wraps.                      *)
Minutes(hour, minute) == hour * 60 + minute

(* now - Duration::days(1): the instant 86400 seconds earlier, read on the *)
(* local clock that was valid then.                                        *)
SubOneDay(now) ==
    LET m == Minutes(now.hour, now.minute) - now.shift
        back == IF m < 0 THEN 2
                ELSE IF m >= MINUTES_PER_DAY THEN 0
                ELSE 1
        mm == (m + MINUTES_PER_DAY) % MINUTES_PER_DAY
    IN  [weekday |-> DaysBefore(now.weekday, back),
         hour |-> mm \div 60,
         minute |-> mm % 60,
         shift |-> 0]

check_day_enabled_Always(days, weekday) == TRUE

check_day_enabled(days, weekday) == weekday \in days

check_time_ClosedEnd(config, now) ==
    LET current_minutes == Minutes(now.hour, now.minute)
        start_minutes == Minutes(config.start_time.hour, config.start_time.minute)
        end_minutes == Minutes(config.end_time.hour, config.end_time.minute)
    IN  IF start_minutes = end_minutes THEN TRUE
        ELSE IF start_minutes < end_minutes
        THEN current_minutes >= start_minutes /\ current_minutes <= end_minutes
        ELSE current_minutes >= start_minutes \/ current_minutes <= end_minutes

check_time(config, now) ==
    LET current_minutes == Minutes(now.hour, now.minute)
        start_minutes == Minutes(config.start_time.hour, config.start_time.minute)
        end_minutes == Minutes(config.end_time.hour, config.end_time.minute)
    IN  IF start_minutes = end_minutes THEN TRUE
        ELSE IF start_minutes < end_minutes
        THEN current_minutes >= start_minutes /\ current_minutes < end_minutes
        ELSE current_minutes >= start_minutes \/ current_minutes < end_minutes

(* As check_weekly, but looking at today's weekday only. *)
check_weekly_IgnoresWindow(config, now) ==
    check_day_enabled(config.days, now.weekday)

check_weekly(config, now) ==
    LET current_minutes == Minutes(now.hour, now.minute)
        start_minutes == Minutes(config.start_time.hour, config.start_time.minute)
        end_minutes == Minutes(config.end_time.hour, config.end_time.minute)
    IN  IF start_minutes = end_minutes
        THEN check_day_enabled(config.days, now.weekday)
        ELSE IF start_minutes < end_minutes
        THEN IF current_minutes >= start_minutes /\ current_minutes < end_minutes
             THEN check_day_enabled(config.days, now.weekday)
             ELSE FALSE
        ELSE IF current_minutes >= start_minutes
             THEN check_day_enabled(config.days, now.weekday)
             ELSE IF current_minutes < end_minutes
             THEN check_day_enabled(config.days, SubOneDay(now).weekday)
             ELSE FALSE

is_allowed(config, now) ==
    IF config.mode = "None" THEN TRUE
    ELSE IF config.mode = "Daily" THEN check_time(config, now)
    ELSE check_weekly(config, now)

(* The times of day, clock readings and schedules explored. *)
TimesOfDay ==
    { [hour |-> 0, minute |-> 0], [hour |-> 0, minute |-> 30],
      [hour |-> 1, minute |-> 59], [hour |-> 2, minute |-> 0],
      [hour |-> 5, minute |-> 0], [hour |-> 9, minute |-> 0],
      [hour |-> 17, minute |-> 0], [hour |-> 22, minute |-> 0],
      [hour |-> 22, minute |-> 59], [hour |-> 23, minute |-> 0],
      [hour |-> 23, minute |-> 59] }
OffsetShifts == {-60, 0, 60}
Nows ==
    { [weekday |-> Weekdays[d], hour |-> t.hour, minute |-> t.minute, shift |-> sh] :
        d \in 1..7, t \in TimesOfDay, sh \in OffsetShifts }
(* The clock readings of one session: a Monday morning and evening. *)
Clock ==
    { now \in Nows : /\ now.weekday = "Mon"
                     /\ now.shift = 0
                     /\ now.minute = 0
                     /\ now.hour \in {9, 23} }
DaySets ==
    { {}, {"Mon", "Tue", "Wed", "Thu"}, {"Sun"},
      {"Mon", "Tue", "Wed", "Thu", "Fri", "Sat", "Sun"} }
Schedules ==
    { [mode |-> md, start_time |-> st, end_time |-> en, days |-> ds] :
        md \in {"None", "Daily", "Weekly"}, st \in TimesOfDay,
        en \in TimesOfDay, ds \in DaySets }

(***************************************************************************)
(* The controller: SftpApp::update and SftpApp::start_manager.             *)
(***************************************************************************)
HasPending(items) == \E i \in 1..Len(items) : items[i].status = "Pending"

RECURSIVE SendPending(_, _)
SendPending(items, ch) ==
    IF items = <<>> THEN ch
    ELSE SendPending(Tail(items),
             IF Head(items).status = "Pending"
             THEN TrySend(ch, CmdAddItem(Head(items)))
             ELSE ch)

(* start_manager: creates the engine once, sends every Pending item and    *)
(* StartAll.  The result is the new command channel.                       *)
start_manager(items) ==
    IF ~is_downloading
    THEN TrySend(SendPending(items, cmd_chan), Cmd("StartAll", ""))
    ELSE cmd_chan

(* One more message from the user, the clock or the settings; a scan      *)
(* result weighs as many messages as it lists files.                       *)
Issue(weight) == ops + weight <= MaxOps /\ ops' = ops + weight
MayIssue == Issue(1)

SetItem(items, k, bytes, st) ==
    LET i == IndexOf(items, k)
    IN  IF i = 0 THEN items
        ELSE [items EXCEPT ![i].bytes_downloaded = bytes, ![i].status = st]
ItemOf(items, k) == items[IndexOf(items, k)]

(* Message::ScanResult(Ok(files), auto_start): the files of one QueueFile  *)
(* (auto_start false) or DownloadFile (auto_start true), a single file or  *)
(* the recursive scan of a folder.  Lines 579-608 for each file.           *)
(* The user picks the file from the listing loaded after the connection,  *)
(* which arrives after the ResumeQueue message of the same batch.          *)
Fresh_Always(items, k) == TRUE

Fresh(items, k) == k \notin KeysOf(items)

RECURSIVE AddScanned(_, _, _)
AddScanned(files, items, ch) ==
    IF files = <<>> THEN [items |-> items, ch |-> ch]
    ELSE LET k == Head(files)
             item == QueueItem(k, RemoteSize[k], 0, "Pending")
         IN  IF Fresh(items, k)
             THEN AddScanned(Tail(files), Append(items, item),
                      IF is_downloading THEN TrySend(ch, CmdAddItem(item)) ELSE ch)
             ELSE AddScanned(Tail(files), items, ch)

ScanResult(files, auto_start) ==
    /\ is_connected
    /\ verification.phase \in {"flying", "done"}
    /\ Issue(Len(files))
    /\ LET r == AddScanned(files, queue_items, cmd_chan)
           start == auto_start /\ ~is_downloading /\ HasPending(r.items)
       IN  /\ queue_items' = r.items
           /\ cmd_chan' = IF start THEN start_manager(r.items) ELSE r.ch
           /\ is_downloading' = (is_downloading \/ start)
    /\ UNCHANGED <<engineVars, event_chan, workers, fileVars,
                   last_schedule_allowed, evHist, sessVars>>

(* Message::ConnectionResult(Ok(client)), lines 301-346: the session is    *)
(* connected and the message ResumeQueue is on its way.                    *)
ConnectionResult ==
    /\ ~is_connected
    /\ is_connected' = TRUE
    /\ verification' = [phase |-> "resume", results |-> <<>>]
    /\ UNCHANGED <<engineVars, cmd_chan, event_chan, workers, fileVars,
                   queue_items, is_downloading, last_schedule_allowed,
                   sideVars, histVars>>

(* Message::ResumeQueue, lines 407-443: the items that are Pending,        *)
(* Downloading or Paused are looked up on the server; missing is the set   *)
(* of paths for which get_file_size fails.                                 *)
ItemsToCheck(items) ==
    SelectSeq(items, LAMBDA it : it.status \in {"Pending", "Downloading", "Paused"})

VerificationResults(checked, missing) ==
    [n \in 1..Len(checked) |->
        [path |-> checked[n].remote_file,
         exists |-> checked[n].remote_file \notin missing,
         size |-> IF checked[n].remote_file \in missing THEN 0
                  ELSE RemoteSize[checked[n].remote_file]]]

ResumeQueue ==
    /\ verification.phase = "resume"
    /\ LET checked == ItemsToCheck(queue_items)
       IN  IF checked = <<>>
           THEN verification' = [phase |-> "done", results |-> <<>>]
           ELSE \E missing \in SUBSET KeysOf(checked) :
                    verification' = [phase |-> "flying",
                                     results |-> VerificationResults(checked, missing)]
    /\ UNCHANGED <<engineVars, cmd_chan, event_chan, workers, fileVars,
                   queue_items, is_downloading, last_schedule_allowed,
                   is_connected, sideVars, histVars>>

(* Message::QueueVerificationResult(results), lines 444-483. *)
VerifiedItem_KeepsDownloading(item, r) ==
    IF ~r.exists
    THEN [item EXCEPT !.status = "Failed"]
    ELSE [item EXCEPT !.size_bytes = IF item.size_bytes = 0 THEN r.size
                                      ELSE item.size_bytes]

VerifiedItem(item, r) ==
    IF ~r.exists
    THEN [item EXCEPT !.status = "Failed"]
    ELSE [item EXCEPT !.size_bytes = IF item.size_bytes = 0 THEN r.size
                                      ELSE item.size_bytes,
                      !.status = IF item.status = "Downloading" THEN "Pending"
                                 ELSE item.status]

RECURSIVE Verified(_, _)
Verified(results, items) ==
    IF results = <<>> THEN items
    ELSE LET r == Head(results)
             i == IndexOf(items, r.path)
         IN  Verified(Tail(results),
                      IF i = 0 THEN items
                      ELSE [items EXCEPT ![i] = VerifiedItem(items[i], r)])

QueueVerificationResult ==
    /\ verification.phase = "flying"
    /\ LET items == Verified(verification.results, queue_items)
       IN  /\ queue_items' = items
           /\ cmd_chan' = start_manager(items)
    /\ is_downloading' = TRUE
    /\ verification' = [verification EXCEPT !.phase = "done"]
    /\ UNCHANGED <<engineVars, event_chan, workers, fileVars,
                   last_schedule_allowed, is_connected, sideVars,
                   histVars>>

(* Message::StartDownloads; the Start button exists while not downloading. *)
StartDownloads ==
    /\ MayIssue
    /\ ~is_downloading
    /\ cmd_chan' = start_manager(queue_items)
    /\ is_downloading' = TRUE
    /\ UNCHANGED <<engineVars, event_chan, workers, fileVars, queue_items,
                   last_schedule_allowed, evHist, sessVars>>

(* Message::PauseDownload(path); the button carries it while the selected  *)
(* item is Downloading.                                                    *)
PauseDownload(path) ==
    /\ MayIssue
    /\ path \in KeysOf(queue_items)
    /\ ItemOf(queue_items, path).status = "Downloading"
    /\ cmd_chan' = IF is_downloading THEN TrySend(cmd_chan, Cmd("Pause", path))
                   ELSE cmd_chan
    /\ queue_items' = SetItem(queue_items, path,
                              ItemOf(queue_items, path).bytes_downloaded, "Paused")
    /\ UNCHANGED <<engineVars, event_chan, workers, fileVars, is_downloading,
                   last_schedule_allowed, evHist, sessVars>>

(* Message::ResumeDownload(path); the button carries it while the selected *)
(* item is Paused.                                                         *)
ResumeDownload(path) ==
    /\ MayIssue
    /\ path \in KeysOf(queue_items)
    /\ ItemOf(queue_items, path).status = "Paused"
    /\ cmd_chan' = IF is_downloading THEN TrySend(cmd_chan, Cmd("Resume", path))
                   ELSE cmd_chan
    /\ queue_items' = SetItem(queue_items, path,
                              ItemOf(queue_items, path).bytes_downloaded,
                              "Downloading")
    /\ UNCHANGED <<engineVars, event_chan, workers, fileVars, is_downloading,
                   last_schedule_allowed, evHist, sessVars>>

(* Message::CancelDownload(path) on the selected item. *)
CancelDownload(path) ==
    /\ MayIssue
    /\ path \in KeysOf(queue_items)
    /\ cmd_chan' = IF is_downloading THEN TrySend(cmd_chan, Cmd("Cancel", path))
                   ELSE cmd_chan
    /\ queue_items' = Retain(queue_items, path)
    /\ UNCHANGED <<engineVars, event_chan, workers, fileVars, is_downloading,
                   last_schedule_allowed, evHist, sessVars>>

(* Message::Tick; now is Local::now(). *)
Tick(now) ==
    /\ MayIssue
    /\ LET allowed == is_allowed(schedule, now)
           edge == allowed # last_schedule_allowed
           ch == IF edge /\ is_downloading
                 THEN TrySend(cmd_chan,
                              Cmd(IF allowed THEN "ResumeAll" ELSE "PauseAll", ""))
                 ELSE cmd_chan
           start == allowed /\ ~is_downloading /\ HasPending(queue_items)
       IN  /\ last_schedule_allowed' = allowed
           /\ cmd_chan' = IF start THEN start_manager(queue_items) ELSE ch
           /\ is_downloading' = (is_downloading \/ start)
           /\ edge \/ start
    /\ UNCHANGED <<engineVars, event_chan, workers, fileVars, queue_items,
                   evHist, sessVars>>

(* A holder of the command sender stores a new speed limit. *)
IssueSetSpeedLimit(limit) ==
    /\ MayIssue
    /\ is_downloading
    /\ limit # speed_limit
    /\ cmd_chan' = TrySend(cmd_chan, CmdSetSpeedLimit(limit))
    /\ UNCHANGED <<engineVars, event_chan, workers, fileVars, ctlVars, evHist>>

(* Message::PollDownloadEvents: the next event of the channel, turned into *)
(* the message handled below.                                              *)
Polls(t) == is_downloading /\ event_chan # <<>> /\ Head(event_chan).type = t

Polled(items) ==
    /\ event_chan' = Tail(event_chan)
    /\ queue_items' = items
    /\ UNCHANGED <<engineVars, cmd_chan, workers, fileVars, is_downloading,
                   last_schedule_allowed, histVars, sessVars>>

DownloadProgress ==
    /\ Polls("Progress")
    /\ Polled(SetItem(queue_items, Head(event_chan).key,
                      Head(event_chan).bytes_downloaded, "Downloading"))

DownloadCompleted_StatusOnly ==
    /\ Polls("Completed")
    /\ LET k == Head(event_chan).key
       IN  Polled(IF k \in KeysOf(queue_items)
                  THEN SetItem(queue_items, k,
                               ItemOf(queue_items, k).bytes_downloaded, "Completed")
                  ELSE queue_items)

DownloadCompleted ==
    /\ Polls("Completed")
    /\ LET k == Head(event_chan).key
       IN  Polled(IF k \in KeysOf(queue_items)
                  THEN SetItem(queue_items, k,
                               ItemOf(queue_items, k).size_bytes, "Completed")
                  ELSE queue_items)

DownloadFailed ==
    /\ Polls("Failed")
    /\ LET k == Head(event_chan).key
       IN  Polled(IF k \in KeysOf(queue_items)
                  THEN SetItem(queue_items, k,
                               ItemOf(queue_items, k).bytes_downloaded, "Failed")
                  ELSE queue_items)

DownloadStarted ==
    /\ Polls("Started")
    /\ LET k == Head(event_chan).key
       IN  Polled(IF k \in KeysOf(queue_items)
                  THEN SetItem(queue_items, k,
                               ItemOf(queue_items, k).bytes_downloaded,
                               "Downloading")
                  ELSE queue_items)

(* DownloadEvent::Paused only continues the polling. *)
DownloadPausedIgnored ==
    /\ Polls("Paused")
    /\ Polled(queue_items)

(***************************************************************************)
(* The system.                                                             *)
(***************************************************************************)
Dispatcher ==
    \/ HandleStartAll
    \/ HandlePauseAll
    \/ HandleResumeAll
    \/ HandlePause
    \/ HandleResume
    \/ HandleCancel
    \/ HandleAddItem
    \/ HandleTaskPaused
    \/ HandleTaskDone
    \/ HandleSetSpeedLimit

download_file(k, i) ==
    \/ WConnect(k, i)
    \/ WCheck(k, i)
    \/ WStorePause(k, i)
    \/ WSendPaused(k, i)
    \/ WSendTaskPaused(k, i)
    \/ WChunk(k, i)
    \/ WSendProgress(k, i)
    \/ WSendCompleted(k, i)
    \/ WSendFailed(k, i)
    \/ WSendDone(k, i)

WorkerStep == \E k \in Keys : \E i \in 1..Len(workers[k]) : download_file(k, i)

Controller ==
    \/ ConnectionResult
    \/ ResumeQueue
    \/ QueueVerificationResult
    \/ \E files \in Scans : \E auto_start \in BOOLEAN : ScanResult(files, auto_start)
    \/ StartDownloads
    \/ \E path \in Keys : PauseDownload(path)
    \/ \E path \in Keys : ResumeDownload(path)
    \/ \E path \in Keys : CancelDownload(path)
    \/ \E now \in Clock : Tick(now)
    \/ \E limit \in SpeedLimits : IssueSetSpeedLimit(limit)
    \/ DownloadProgress
    \/ DownloadCompleted
    \/ DownloadFailed
    \/ DownloadStarted
    \/ DownloadPausedIgnored

PollDownloadEvents ==
    \/ DownloadProgress
    \/ DownloadCompleted
    \/ DownloadFailed
    \/ DownloadStarted
    \/ DownloadPausedIgnored


(***************************************************************************)
(* The download statistics: AppConfig::get_average_speed (settings.rs).    *)
(* A call panics or returns; where the two builds of the program differ    *)
(* (an overflowing sum panics in a debug build and wraps in a release      *)
(* build) both outcomes are possible.                                      *)
(***************************************************************************)
DailyStat(bytes, seconds) ==
    [bytes_downloaded |-> bytes, seconds_active |-> seconds]

Panicked(arg) == [kind |-> "panicked", arg |-> arg]
Returned(arg, v) == [kind |-> "returned", arg |-> arg, value |-> v]

(* usize::saturating_sub *)
saturating_sub(a, b) == IF a > b THEN a - b ELSE 0

(* Iterator::sum of u64 values, as the number before it is wrapped: the   *)
(* limbs are added up one by one and the carries taken once.               *)
RECURSIVE SumLimb(_, _, _)
SumLimb(xs, i, n) == IF n = 0 THEN 0 ELSE xs[n][i] + SumLimb(xs, i, n - 1)
Sum(xs) ==
    LET S(i) == SumLimb(xs, i, Len(xs))
    IN  Normalize(<<S(1), S(2), S(3), S(4), S(5), S(6), S(7)>>)

(* &self.download_stats[start_idx..] *)
LastDays(stats, days) ==
    SubSeq(stats, saturating_sub(Len(stats), days) + 1, Len(stats))
total_bytes(sel) == Sum([i \in 1..Len(sel) |-> sel[i].bytes_downloaded])
total_seconds(sel) == Sum([i \in 1..Len(sel) |-> sel[i].seconds_active])

get_average_speed(stats, days) ==
    IF stats = <<>> THEN {Returned(days, U64Of(0))}
    ELSE LET sel == LastDays(stats, days)
             bytes == total_bytes(sel)
             seconds == total_seconds(sel)
             value == IF IsZero(Wrapped(seconds)) THEN U64Of(0)
                      ELSE BigDiv(Wrapped(bytes), Wrapped(seconds))
         IN  {Returned(days, value)}
             \cup (IF Overflows(bytes) \/ Overflows(seconds)
                   THEN {Panicked(days)} ELSE {})

WEEK_DAYS == 7
MONTH_DAYS == 30

get_weekly_average ==
    /\ average_speed' \in get_average_speed(download_stats, WEEK_DAYS)
    /\ UNCHANGED <<engineVars, cmd_chan, event_chan, workers, fileVars,
                   queue_items, is_downloading, last_schedule_allowed,
                   is_connected, verification, schedule, loaded_queue,
                   download_stats, throttle, listVars, histVars>>

get_monthly_average ==
    /\ average_speed' \in get_average_speed(download_stats, MONTH_DAYS)
    /\ UNCHANGED <<engineVars, cmd_chan, event_chan, workers, fileVars,
                   queue_items, is_downloading, last_schedule_allowed,
                   is_connected, verification, schedule, loaded_queue,
                   download_stats, throttle, listVars, histVars>>

(* The statistics of the configuration file: any amounts, on a few days,   *)
(* on more days than a week and on more days than a month.                 *)
StatAmounts == {U64Of(0), U64Of(2), U64Of(5), PowerOfTwo(63)}
DailyStats == {DailyStat(b, s) : b \in StatAmounts, s \in StatAmounts}
MaxStatDays == 2
Busy(n) == [i \in 1..n |-> DailyStat(U64Of(5), U64Of(2))]
StatLists ==
    UNION {[1..n -> DailyStats] : n \in 0..MaxStatDays}
    \cup {<<first>> \o Busy(n) : first \in DailyStats,
                                 n \in {WEEK_DAYS, MONTH_DAYS}}

(***************************************************************************)
(* The throttle of download_file (download_manager.rs 353-389): what one   *)
(* turn of the loop does between reading a chunk of bytes_read > 0 bytes   *)
(* and sending its Progress.  elapsed is start.elapsed() in microseconds,  *)
(* limit_kb the speed limit loaded after the chunk.  The turn returns the  *)
(* microseconds it slept, or the task panics; an overflowing limit_kb *    *)
(* 1024 panics in a debug build and wraps in a release build.              *)
(***************************************************************************)
MICROS_PER_MILLI == 1000
MILLIS_PER_SECOND == 1000
BYTES_PER_KB == 1024

Turn(bytes_read, limit_kb, elapsed) ==
    [bytes_read |-> bytes_read, limit_kb |-> limit_kb, elapsed |-> elapsed]

(* As ThrottleSleep, but sleeping the whole min_duration_micros. *)
ThrottleSleep_WholePause(bytes, divisor, elapsed) ==
    LET min_duration_micros == BigDiv(bytes, divisor)
    IN  IF BigLess(elapsed, min_duration_micros)
        THEN min_duration_micros
        ELSE U64Of(0)

(* Lines 385-388, for a divisor that is not 0. *)
ThrottleSleep(bytes, divisor, elapsed) ==
    LET min_duration_micros == BigDiv(bytes, divisor)
    IN  IF BigLess(elapsed, min_duration_micros)
        THEN BigSub(min_duration_micros, elapsed)
        ELSE U64Of(0)

Throttle(bytes_read, limit_kb, elapsed) ==
    LET turn == Turn(bytes_read, limit_kb, elapsed)
        bytes == BigMulSmall(BigMulSmall(U64Of(bytes_read), MICROS_PER_MILLI),
                             MILLIS_PER_SECOND)
        divisor == BigMulSmall(limit_kb, BYTES_PER_KB)
        release == IF IsZero(Wrapped(divisor)) THEN Panicked(turn)
                   ELSE Returned(turn, ThrottleSleep(Wrapped(bytes),
                                                     Wrapped(divisor),
                                                     U64Of(elapsed)))
    IN  IF IsZero(limit_kb) THEN {Returned(turn, U64Of(0))}
        ELSE IF Overflows(bytes) \/ Overflows(divisor)
        THEN {Panicked(turn), release}
        ELSE {release}

(* One turn of some worker's loop: the limit is the one stored when the    *)
(* chunk has been read.                                                    *)
ThrottledChunk(bytes_read, elapsed) ==
    /\ is_downloading
    /\ throttle' \in Throttle(bytes_read, speed_limit, elapsed)
    /\ UNCHANGED <<engineVars, cmd_chan, event_chan, workers, fileVars,
                   queue_items, is_downloading, last_schedule_allowed,
                   is_connected, verification, schedule, loaded_queue,
                   statVars, listVars, histVars>>

(* The chunk lengths, transfer times (microseconds) and speed limits tried: *)
(* a byte, the rest of a file and a whole chunk; no time, a millisecond    *)
(* and two seconds; the limits around the largest one whose 1024-fold      *)
(* fits 64 bits.                                                           *)
ChunkLengths == {1, 34464, CHUNK_SIZE}
ElapsedMicros == {0, 1000, 2000000}
KB_LIMIT_BITS == 54
Limits ==
    SpeedLimits
    \cup {U64Of(1), BigSub(PowerOfTwo(KB_LIMIT_BITS), U64Of(1)),
          PowerOfTwo(KB_LIMIT_BITS),
          BigAdd(PowerOfTwo(KB_LIMIT_BITS), U64Of(1)),
          PowerOfTwo(U64_BITS - 1), U64_MAX}

(* The task of a worker panics at lines 383-384, after its chunk has been  *)
(* written and before its Progress is sent, when the speed limit loaded    *)
(* makes the turn panic in every build: the task ends there and sends      *)
(* nothing.                                                                *)
WThrottlePanics(k, i) ==
    /\ At(k, i, "send_progress")
    /\ \E elapsed \in ElapsedMicros :
           \A outcome \in Throttle(Worker(k, i).bytes - Worker(k, i).reported,
                                   speed_limit, elapsed) :
               outcome.kind = "panicked"
    /\ Exit(k, i)
    /\ UNCHANGED <<engineVars, cmd_chan, event_chan, fileVars, ctlVars,
                   histVars>>

(***************************************************************************)
(* The remote file service: SftpClient::list_dir (sftp_client.rs 85-156).  *)
(* A file name is the sequence of its bytes.  The server lists the         *)
(* directory; the SFTP library's readdir hands list_dir one path per       *)
(* entry, the directory's path joined with the entry's name, and leaves    *)
(* out the entries "." and ".." (ssh2::Sftp::readdir, imported at          *)
(* sftp_client.rs 23).                                                     *)
(***************************************************************************)
DOT_BYTE == 46
MAX_ASCII == 127
Dot == <<DOT_BYTE>>
DotDot == <<DOT_BYTE, DOT_BYTE>>

Entry(name, is_dir) == [name |-> name, is_dir |-> is_dir]
RemoteFile(name, is_dir) ==
    [name |-> name, file_type |-> IF is_dir THEN "Folder" ELSE "File"]

readdir(dir) ==
    SelectSeq(dir.entries, LAMBDA e : e.name \notin {Dot, DotDot})

NoName == <<>>
(* Path::file_name of the directory's path joined with the name: nothing   *)
(* for a path that ends in "..", and a final "." is not a component of a   *)
(* path, whose last component is then the directory itself (nothing for    *)
(* the root directory).                                                    *)
file_name(dir, name) ==
    IF name = DotDot THEN NoName
    ELSE IF name = Dot THEN dir.name
    ELSE name

(* OsStr::to_str succeeds on UTF-8; of the names tried, those are the      *)
(* ones made of ASCII bytes.                                               *)
to_str_ok(name) == \A i \in 1..Len(name) : name[i] <= MAX_ASCII

(* String::cmp: byte by byte, a proper prefix first. *)
RECURSIVE StrLess(_, _)
StrLess(a, b) ==
    IF b = <<>> THEN FALSE
    ELSE IF a = <<>> THEN TRUE
    ELSE IF Head(a) # Head(b) THEN Head(a) < Head(b)
    ELSE StrLess(Tail(a), Tail(b))

(* The comparator of sort_by (lines 141-151): Ordering::Less. *)
SortsBefore(a, b) ==
    IF a.file_type = b.file_type THEN StrLess(a.name, b.name)
    ELSE a.file_type = "Folder"

(* slice::sort_by, a stable sort. *)
RECURSIVE Insert(_, _)
Insert(sorted, x) ==
    IF sorted = <<>> THEN <<x>>
    ELSE IF SortsBefore(x, Head(sorted)) THEN <<x>> \o sorted
    ELSE <<Head(sorted)>> \o Insert(Tail(sorted), x)
RECURSIVE sort_by(_)
sort_by(files) ==
    IF files = <<>> THEN <<>>
    ELSE Insert(sort_by(SubSeq(files, 1, Len(files) - 1)), files[Len(files)])

(* The loop of lines 99-139 over the paths handed over: the files pushed,  *)
(* or a panic of one of the unwraps of line 100.                           *)
RECURSIVE Collect(_, _, _)
Collect(dir, files, acc) ==
    IF files = <<>> THEN [panicked |-> FALSE, files |-> acc]
    ELSE LET filename == file_name(dir, Head(files).name)
         IN  IF filename = NoName \/ ~to_str_ok(filename)
             THEN [panicked |-> TRUE, files |-> acc]
             ELSE IF filename = Dot
             THEN Collect(dir, Tail(files), acc)
             ELSE Collect(dir, Tail(files),
                          Append(acc, RemoteFile(filename,
                                                 Head(files).is_dir)))

list_dir(dir) ==
    {LET r == Collect(dir, files, <<>>)
     IN  IF r.panicked THEN Panicked(dir) ELSE Returned(dir, sort_by(r.files))
     : files \in {readdir(dir)}}

(* Message::Navigate and its like: the directory is listed. *)
ListDirectory ==
    /\ remote_files' \in list_dir(server_dir)
    /\ UNCHANGED <<engineVars, cmd_chan, event_chan, workers, fileVars,
                   queue_items, is_downloading, last_schedule_allowed,
                   is_connected, verification, schedule, loaded_queue,
                   statVars, throttle, server_dir, server_tree, scan,
                   histVars>>

(* The directories tried: the root or a directory named "d"; up to         *)
(* MaxEntries entries with different names out of ".", "..", "B", "a",     *)
(* "ab" and a name that is not UTF-8, each a folder or a file.             *)
MaxEntries == 3
NOT_UTF8_BYTE == 255
EntryNames == {Dot, DotDot, <<66>>, <<97>>, <<97, 98>>, <<NOT_UTF8_BYTE>>}
DirNames == {NoName, <<100>>}
Listings ==
    {es \in UNION {[1..n -> {Entry(nm, d) : nm \in EntryNames,
                                            d \in BOOLEAN}]
                   : n \in 0..MaxEntries} :
        \A i, j \in 1..Len(es) : i # j => es[i].name # es[j].name}
Directories == {[name |-> nm, entries |-> es] : nm \in DirNames, es \in Listings}

(***************************************************************************)
(* SftpClient::recursive_scan (sftp_client.rs 158-219).  A path is the     *)
(* sequence of its components below the root of the scan; the server's     *)
(* tree gives each path its kind: absent, a file, a directory that can be  *)
(* read, or a directory that cannot.  A symbolic link is listed as what    *)
(* it is, not a directory, so the tree has no cycle.                       *)
(***************************************************************************)
MaxDepth == 2
ScanNames == {<<97>>, <<98>>}
NameOrder == <<<<97>>, <<98>>>>
Paths == UNION {[1..n -> ScanNames] : n \in 0..MaxDepth}
Kinds == {"absent", "file", "dir", "unreadable"}
Folders == {"dir", "unreadable"}
Root == <<>>
Parent(path) == SubSeq(path, 1, Len(path) - 1)
Trees ==
    {t \in [Paths -> Kinds] :
        \A path \in Paths \ {Root} :
            t[path] # "absent" => t[Parent(path)] \in Folders}

(* What the server lists for a directory: ".", ".." and its children. *)
Children(tree, path) ==
    IF Len(path) = MaxDepth THEN <<>>
    ELSE SelectSeq(NameOrder, LAMBDA nm : tree[Append(path, nm)] # "absent")
Lists(tree, path) ==
    [name |-> IF path = Root THEN NoName ELSE path[Len(path)],
     entries |-> <<Entry(Dot, TRUE), Entry(DotDot, TRUE)>>
                 \o [i \in 1..Len(Children(tree, path)) |->
                        Entry(Children(tree, path)[i],
                              tree[Append(path, Children(tree, path)[i])]
                                  \in Folders)]]

(* The loop of lines 169-214 over the entries of current_path. *)
RECURSIVE Visit_KeepsFolders(_, _, _, _, _)
Visit_KeepsFolders(dir, current_path, entries, stack, all_files) ==
    IF entries = <<>> THEN [stack |-> stack, all_files |-> all_files]
    ELSE LET e == Head(entries)
             filename == file_name(dir, e.name)
             path == Append(current_path, e.name)
         IN  IF filename = Dot \/ filename = DotDot
             THEN Visit_KeepsFolders(dir, current_path, Tail(entries), stack,
                                     all_files)
             ELSE Visit_KeepsFolders(
                      dir, current_path, Tail(entries),
                      IF e.is_dir THEN Append(stack, path) ELSE stack,
                      Append(all_files,
                             [path |-> path] @@ RemoteFile(filename, e.is_dir)))
RECURSIVE Visit(_, _, _, _, _)
Visit(dir, current_path, entries, stack, all_files) ==
    IF entries = <<>> THEN [stack |-> stack, all_files |-> all_files]
    ELSE LET e == Head(entries)
             filename == file_name(dir, e.name)
             path == Append(current_path, e.name)
         IN  IF filename = Dot \/ filename = DotDot
             THEN Visit(dir, current_path, Tail(entries), stack, all_files)
             ELSE IF e.is_dir
             THEN Visit(dir, current_path, Tail(entries),
                        Append(stack, path), all_files)
             ELSE Visit(dir, current_path, Tail(entries), stack,
                        Append(all_files,
                               [path |-> path] @@ RemoteFile(filename, FALSE)))

ScanUnchanged ==
    UNCHANGED <<engineVars, cmd_chan, event_chan, workers, fileVars,
                queue_items, is_downloading, last_schedule_allowed,
                is_connected, verification, schedule, loaded_queue,
                statVars, throttle, server_dir, remote_files, server_tree,
                histVars>>

(* Lines 159-165: realpath fails for a path that does not exist. *)
StartScan ==
    /\ scan.kind = "none"
    /\ scan' = IF server_tree[Root] = "absent"
               THEN [kind |-> "failed"]
               ELSE [kind |-> "loop", stack |-> <<Root>>, all_files |-> <<>>]
    /\ ScanUnchanged

(* One turn of the loop of lines 167-216: the path on top of the stack is  *)
(* read; readdir fails for anything but a directory that can be read.      *)
ScanStep ==
    /\ scan.kind = "loop"
    /\ scan.stack # <<>>
    /\ LET current_path == scan.stack[Len(scan.stack)]
           rest == SubSeq(scan.stack, 1, Len(scan.stack) - 1)
           dir == Lists(server_tree, current_path)
           r == IF server_tree[current_path] = "dir"
                THEN Visit(dir, current_path, readdir(dir), rest,
                           scan.all_files)
                ELSE [stack |-> rest, all_files |-> scan.all_files]
       IN  scan' = [scan EXCEPT !.stack = r.stack, !.all_files = r.all_files]
    /\ ScanUnchanged

(* Line 217: the stack is empty. *)
ScanReturn ==
    /\ scan.kind = "loop"
    /\ scan.stack = <<>>
    /\ scan' = [kind |-> "returned", all_files |-> scan.all_files]
    /\ ScanUnchanged

Next == Dispatcher \/ WorkerStep \/ Controller

Spec == Init /\ [][Next]_vars

(* The scheduler on its own: any schedule of the settings, no queue, and   *)
(* the clock ticking.                                                      *)
InitSched == \E sched \in Schedules : Boot([items |-> <<>>, files |-> NoFiles], sched)

NextSched == \E now \in Nows : Tick(now)

SpecSched == InitSched /\ [][NextSched]_vars

(* The statistics on their own: any recorded statistics, and the two       *)
(* averages asked for.                                                     *)
NoSession == [items |-> <<>>, files |-> NoFiles]

InitStats ==
    /\ BootApp(NoSession, LoadedSchedule)
    /\ ops = 0
    /\ download_stats \in StatLists
    /\ average_speed = NotCalled
    /\ throttle = NotCalled
    /\ server_dir = NoDirectory
    /\ remote_files = NotCalled
    /\ server_tree = NoTree
    /\ scan = NotCalled

NextStats == get_weekly_average \/ get_monthly_average

SpecStats == InitStats /\ [][NextStats]_vars

(* The listing on its own: any directory of the server, listed. *)
InitList ==
    /\ BootApp(NoSession, LoadedSchedule)
    /\ ops = 0
    /\ download_stats = <<>>
    /\ average_speed = NotCalled
    /\ throttle = NotCalled
    /\ server_dir \in Directories
    /\ remote_files = NotCalled
    /\ server_tree = NoTree
    /\ scan = NotCalled

NextList == ListDirectory

SpecList == InitList /\ [][NextList]_vars

(* The scan on its own: any tree of the server, scanned from its root. *)
InitScan ==
    /\ BootApp(NoSession, LoadedSchedule)
    /\ ops = 0
    /\ download_stats = <<>>
    /\ average_speed = NotCalled
    /\ throttle = NotCalled
    /\ server_dir = NoDirectory
    /\ remote_files = NotCalled
    /\ server_tree \in Trees
    /\ scan = NotCalled

NextScan == StartScan \/ ScanStep \/ ScanReturn

SpecScan == InitScan /\ [][NextScan]_vars /\ WF_vars(NextScan)

(* The throttle on its own: the engine is started with an empty queue,     *)
(* speed limits are stored, and turns of a worker's loop read chunks.      *)
InitThrottle == Boot(NoSession, LoadedSchedule)

NextThrottle ==
    \/ StartDownloads
    \/ HandleStartAll
    \/ \E limit \in Limits : IssueSetSpeedLimit(limit)
    \/ HandleSetSpeedLimit
    \/ \E bytes_read \in ChunkLengths, elapsed \in ElapsedMicros :
           ThrottledChunk(bytes_read, elapsed)

SpecThrottle == InitThrottle /\ [][NextThrottle]_vars

(* The engine with the speed limits of the throttle: any limit is stored,  *)
(* and a worker's turn may panic on it.                                    *)
NextPanic ==
    \/ Next
    \/ \E limit \in Limits : IssueSetSpeedLimit(limit)
    \/ \E k \in Keys : \E i \in 1..Len(workers[k]) : WThrottlePanics(k, i)

SpecPanic == Init /\ [][NextPanic]_vars

(* The runtime schedules every spawned task and the dispatcher task, the   *)
(* channels serve their waiting senders in turn, and the controller's      *)
(* subscription keeps polling the event channel.                           *)
FairSpec ==
    /\ Spec
    /\ \A k \in Keys :
           SF_vars(\E i \in 1..Len(workers[k]) : download_file(k, i))
    /\ SF_vars(Dispatcher)
    /\ WF_vars(PollDownloadEvents)


(***************************************************************************)
(* Properties.                                                             *)
(***************************************************************************)
NoDuplicate(q) ==
    \A i, j \in 1..Len(q) : i # j => q[i].remote_file # q[j].remote_file
NoWorkers == \A k \in Keys : workers[k] = <<>>
Quiescent == cmd_chan = <<>> /\ NoWorkers
WorkerLeft(k) == Len(workers'[k]) < Len(workers[k])
Handles(t, k) == Receives(t) /\ Head(cmd_chan).key = k /\ cmd_chan' = Tail(cmd_chan)

(* The order of the events of one run: Started opens it, Progress follows  *)
(* Started or Progress, a final event follows Started or Progress.         *)
EventAllowed(prev, t) ==
    CASE t = "Started"  -> prev \in {"None"} \cup FinalEvents
      [] t = "Progress" -> prev \in {"Started", "Progress"}
      [] OTHER          -> prev \in {"Started", "Progress"}
EventsInOrder ==
    \A n \in 1..Len(NewEvents) :
        EventAllowed(lastEv[NewEvents[n].key], NewEvents[n].type)

(* C1: in every reachable state the active set holds at most               *)
(* MAX_CONCURRENT = 2 keys.                                                *)
C1_ActiveBounded == Cardinality(active_downloads) <= MAX_CONCURRENT
(* Both slots taken while a third queued item is eligible but waits. *)
C1_Witness ==
    /\ Cardinality(active_downloads) = MAX_CONCURRENT
    /\ \E i \in 1..Len(queue) :
           Eligible(queue[i], active_downloads, paused_downloads, cancelled)

C3_CompletedIsTerminal ==
    [][\A k \in Keys :
           (lastEv[k] = "Completed" /\ Emitted("Started", k))
               => Handles("AddItem", k)]_vars

(* C4: after Failed was emitted for a key, no Started is emitted for it    *)
(* unless the step handles the user's AddItem, Resume or ResumeAll.        *)
C4_FailedIsTerminal ==
    [][\A k \in Keys :
           (lastEv[k] = "Failed" /\ Emitted("Started", k))
               => \/ Handles("AddItem", k)
                  \/ Handles("Resume", k)
                  \/ Receives("ResumeAll")]_vars

(* C5: while an item stays in the controller queue its bytes_downloaded    *)
(* never decreases and never exceeds size_bytes.                           *)
C5_BytesMonotonic ==
    [][\A k \in KeysOf(queue_items) \cap KeysOf(queue_items') :
           /\ ItemOf(queue_items', k).bytes_downloaded
                  >= ItemOf(queue_items, k).bytes_downloaded
           /\ ItemOf(queue_items', k).bytes_downloaded
                  <= ItemOf(queue_items', k).size_bytes]_vars

(* C6: every item of the controller queue has                              *)
(* 0 <= bytes_downloaded <= size_bytes, and bytes_downloaded = size_bytes  *)
(* when its status is Completed.                                           *)
C6_CtlBytesInRange ==
    \A i \in 1..Len(queue_items) :
        /\ 0 <= queue_items[i].bytes_downloaded
        /\ queue_items[i].bytes_downloaded <= queue_items[i].size_bytes
        /\ queue_items[i].status = "Completed"
               => queue_items[i].bytes_downloaded = queue_items[i].size_bytes
(* A non-empty file is Completed beside an item that is part-way. *)
C6_Witness ==
    /\ \E i \in 1..Len(queue_items) :
           /\ queue_items[i].status = "Completed"
           /\ queue_items[i].size_bytes > 0
    /\ \E i \in 1..Len(queue_items) :
           /\ queue_items[i].bytes_downloaded > 0
           /\ queue_items[i].bytes_downloaded < queue_items[i].size_bytes

(* C7: neither the engine queue nor the controller queue ever holds two    *)
(* items with the same remote_file.                                        *)
C7_UniqueKeys == NoDuplicate(queue) /\ NoDuplicate(queue_items)
(* An AddItem for a key that was still active has been handled and left    *)
(* the engine queue without it: the key was cancelled and queued again     *)
(* while its worker ran.                                                   *)
C7_Witness ==
    \E k \in active_downloads \cap cancelled :
        /\ k \in KeysOf(queue_items)
        /\ k \notin KeysOf(queue)
        /\ cmd_chan = <<>>

(* C8: once the dispatcher has handled Cancel(p), no event for p is sent.  *)
C8_NoEventAfterCancel ==
    [][\A k \in cancelled : ~EmittedAny(k)]_vars

(* C9: after PauseAll and then ResumeAll were handled, every item that was *)
(* active at the PauseAll is Started again: when no command waits and no   *)
(* worker runs, none of them is still owed its Started.                    *)
C9_ResumeAllRestarts == ~(Quiescent /\ resumedAll /\ owed # {})

(* C10: no item is starved by others: a key that has Completed is not      *)
(* Started again while another queued key that never started, and is       *)
(* neither paused nor cancelled, is left waiting.                          *)
C10_NoStarvation ==
    [][\A k \in Keys :
           (lastEv[k] = "Completed" /\ Emitted("Started", k))
               => \A j \in KeysOf(queue') \ {k} :
                      (/\ lastEv[j] = "None"
                       /\ paused_downloads'[j] = NotPaused
                       /\ j \notin cancelled')
                          => Emitted("Started", j)]_vars

(* C11: while is_global_paused is set, a step that does not handle         *)
(* StartAll or ResumeAll keeps it set, sends no Started and spawns no      *)
(* worker, whichever command (AddItem, Resume, TaskDone, ...) it handles.  *)
C11_NoStartWhilePaused ==
    [][(/\ is_global_paused
        /\ ~(Receives("StartAll") /\ cmd_chan' = Tail(cmd_chan))
        /\ ~(Receives("ResumeAll") /\ cmd_chan' = Tail(cmd_chan)))
           => /\ is_global_paused'
              /\ \A k \in Keys :
                     /\ ~Emitted("Started", k)
                     /\ Len(workers'[k]) <= Len(workers[k])]_vars
(* The dispatcher is idle in the global pause with a free slot and an      *)
(* eligible item: the AddItem or TaskDone it handled dispatched nothing.   *)
C11_Witness ==
    /\ is_global_paused
    /\ cmd_chan = <<>>
    /\ HasCapacity(active_downloads)
    /\ \E i \in 1..Len(queue) :
           Eligible(queue[i], active_downloads, paused_downloads, cancelled)

C13_PausedOffsetIsFileSize ==
    \A k \in Keys : \A i \in 1..Len(workers[k]) :
        workers[k][i].pc \in {"store_pause", "send_paused", "send_task_paused"}
            => /\ workers[k][i].bytes = workers[k][i].reported
               /\ workers[k][i].bytes = LocalSize(k)

(* C14: whenever Completed is sent for a key, its local file exists and    *)
(* equals the remote file: it has the remote length and its bytes are the  *)
(* remote bytes.                                                           *)
C14_CompletedFileEqualsRemote ==
    [][\A k \in Keys :
           Emitted("Completed", k)
               => /\ local_file[k] = RemoteSize[k]
                  /\ local_intact[k]]_vars

(* C15: no byte is written twice: every local file is a prefix of its      *)
(* remote file.                                                            *)
C15_LocalIsPrefix ==
    \A k \in Keys :
        local_file[k] # NoFile
            => /\ local_intact[k]
               /\ local_file[k] <= RemoteSize[k]

(* C16: an item that load_queue returned as Downloading and whose local    *)
(* file holds s bytes, 0 < s < size_bytes, is dispatched for the first     *)
(* time with start_offset = s, whatever bytes_downloaded was saved.        *)
LoadedAs(k, st) ==
    \E i \in 1..Len(loaded_queue) :
        loaded_queue[i].remote_file = k /\ loaded_queue[i].status = st

C16_CrashRecoveryOffset ==
    [][\A k \in Keys :
           (/\ LoadedAs(k, "Downloading")
            /\ lastEv[k] = "None"
            /\ workers[k] = <<>>
            /\ workers'[k] # <<>>
            /\ local_file[k] # NoFile
            /\ local_file[k] > 0
            /\ local_file[k] < RemoteSize[k])
               => workers'[k][1].bytes = local_file[k]]_vars

(* C17: queue verification after connect.  ResumeQueue looks up exactly    *)
(* the items that are Pending, Downloading or Paused; when the results     *)
(* arrive, an item whose remote file is missing becomes Failed, an item    *)
(* whose remote file is present gets its size_bytes filled in when it was  *)
(* 0, and no verified item is left Downloading.                            *)
LooksUp ==
    verification.phase = "resume" /\ verification'.phase # "resume"
ResultsArrive ==
    verification.phase = "flying" /\ verification'.phase = "done"

C17_QueueVerification ==
    [][/\ LooksUp =>
              LET res == verification'.results
              IN  {res[n].path : n \in 1..Len(res)}
                      = {queue_items[i].remote_file : i \in
                            {j \in 1..Len(queue_items) :
                                queue_items[j].status \in
                                    {"Pending", "Downloading", "Paused"}}}
       /\ ResultsArrive =>
              \A n \in 1..Len(verification.results) :
                  LET r == verification.results[n]
                      i == IndexOf(queue_items, r.path)
                  IN  i # 0 =>
                        /\ queue_items'[i].remote_file = r.path
                        /\ ~r.exists => queue_items'[i].status = "Failed"
                        /\ r.exists =>
                              /\ queue_items'[i].size_bytes =
                                     IF queue_items[i].size_bytes = 0 THEN r.size
                                     ELSE queue_items[i].size_bytes
                              /\ queue_items'[i].status # "Downloading"
                              /\ queue_items[i].status = "Downloading"
                                     => queue_items'[i].status = "Pending"]_vars

(* A crashed item was found on the server and handed to the engine as      *)
(* Pending.                                                                *)
C17_Witness ==
    /\ verification.phase = "done"
    /\ \E n \in 1..Len(verification.results) :
           LET r == verification.results[n]
           IN  /\ r.exists
               /\ LoadedAs(r.path, "Downloading")
               /\ r.path \in KeysOf(queue_items)
               /\ ItemOf(queue_items, r.path).status = "Pending"
               /\ \E c \in 1..Len(cmd_chan) :
                      cmd_chan[c].type = "AddItem" /\ cmd_chan[c].key = r.path

(* Times of day compared as (hour, minute) pairs. *)
Before(t1, t2) ==
    t1.hour < t2.hour \/ (t1.hour = t2.hour /\ t1.minute < t2.minute)
SameTime(t1, t2) == t1.hour = t2.hour /\ t1.minute = t2.minute

(* C18: in mode None is_allowed is always true; in mode Daily it is true   *)
(* when start = end, it is start <= current < end when start < end, and    *)
(* it is current >= start or current < end when start > end.               *)
C18_NoneAndDaily ==
    LET st == schedule.start_time
        en == schedule.end_time
    IN  \A now \in Nows :
            /\ schedule.mode = "None" => is_allowed(schedule, now)
            /\ schedule.mode = "Daily" =>
                  is_allowed(schedule, now) =
                      IF SameTime(st, en) THEN TRUE
                      ELSE IF Before(st, en)
                      THEN ~Before(now, st) /\ Before(now, en)
                      ELSE ~Before(now, st) \/ Before(now, en)

(* A Daily overnight window was found closed by a tick. *)
C18_Witness ==
    /\ schedule.mode = "Daily"
    /\ Before(schedule.end_time, schedule.start_time)
    /\ ~last_schedule_allowed
    /\ ops = 1

(* C19: in mode Weekly with an overnight window (start > end), is_allowed  *)
(* is whether today is enabled on the evening side (current >= start),     *)
(* whether yesterday is enabled on the morning side (current < end), and   *)
(* false otherwise.                                                        *)
C19_WeeklyOvernight ==
    LET st == schedule.start_time
        en == schedule.end_time
    IN  (schedule.mode = "Weekly" /\ Before(en, st)) =>
            \A now \in Nows :
                is_allowed(schedule, now) =
                    IF ~Before(now, st) THEN now.weekday \in schedule.days
                    ELSE IF Before(now, en)
                    THEN DaysBefore(now.weekday, 1) \in schedule.days
                    ELSE FALSE

(* C20: in mode Weekly with start <= end, is_allowed is true exactly when  *)
(* the Daily rule allows the current time (all day when start = end,       *)
(* start <= current < end otherwise) and today's weekday is enabled.       *)
C20_WeeklySameDay ==
    LET st == schedule.start_time
        en == schedule.end_time
    IN  (schedule.mode = "Weekly" /\ ~Before(en, st)) =>
            \A now \in Nows :
                is_allowed(schedule, now) =
                    /\ SameTime(st, en) \/ (~Before(now, st) /\ Before(now, en))
                    /\ now.weekday \in schedule.days

(* A Weekly same-day window with only Sunday enabled was found closed by   *)
(* one tick and open by the next.                                          *)
C20_Witness ==
    /\ schedule.mode = "Weekly"
    /\ Before(schedule.start_time, schedule.end_time)
    /\ schedule.days = {"Sun"}
    /\ last_schedule_allowed
    /\ ops = 2

(* C21: a tick at which the schedule predicate changes while the engine    *)
(* runs sends PauseAll (allowed to not allowed) or ResumeAll (back), and   *)
(* once the engine has handled its commands after a tick at which the      *)
(* predicate was false, the running engine is globally paused.             *)
PredicateFlips == last_schedule_allowed' # last_schedule_allowed

C21_ScheduleDrivesPause ==
    /\ [][(PredicateFlips /\ is_downloading) =>
              /\ cmd_chan # cmd_chan'
              /\ cmd_chan' = Append(cmd_chan,
                     Cmd(IF last_schedule_allowed' THEN "ResumeAll" ELSE "PauseAll", ""))]_vars
    /\ []((~last_schedule_allowed /\ is_downloading /\ cmd_chan = <<>>)
              => is_global_paused)

(* C22: a worker holds no mutex while it awaits an event send, a command   *)
(* send or a chunk transfer, and the dispatcher never waits for a mutex    *)
(* held by a worker that waits for space in the command channel.           *)
HoldsPausedGuard(k, i) ==
    workers[k][i].pc \in {"send_paused", "send_task_paused"}
Awaits(k, i) ==
    workers[k][i].pc \in {"send_paused", "send_task_paused", "send_progress",
                          "send_completed", "send_failed", "send_done", "chunk"}
DispatcherWaitsForPaused ==
    /\ cmd_chan # <<>>
    /\ Head(cmd_chan).type \in {"PauseAll", "ResumeAll", "Pause", "Resume"}
    /\ PausedLocked

C22_NoMutexAcrossAwait ==
    /\ \A k \in Keys : \A i \in 1..Len(workers[k]) :
           ~(HoldsPausedGuard(k, i) /\ Awaits(k, i))
    /\ ~(/\ DispatcherWaitsForPaused
         /\ Len(cmd_chan) = CHANNEL_CAPACITY
         /\ \E k \in Keys : \E i \in 1..Len(workers[k]) :
                workers[k][i].pc = "send_task_paused")

(* C23: when the controller receives the Paused event of an item, the      *)
(* item's status in the controller queue becomes Paused.                   *)
ReceivesPaused(k) ==
    /\ event_chan # <<>>
    /\ Head(event_chan) = Ev("Paused", k)
    /\ event_chan' = Tail(event_chan)

C23_PausedEventSetsPaused ==
    [][\A k \in Keys :
           (ReceivesPaused(k) /\ k \in KeysOf(queue_items))
               => /\ k \in KeysOf(queue_items')
                  /\ ItemOf(queue_items', k).status = "Paused"]_vars

(* C24: get_average_speed(days) returns 0 if and only if the seconds of    *)
(* the selected statistics add up to 0, and otherwise returns the bytes    *)
(* of the selected statistics divided by their seconds (integer            *)
(* division), for every list of daily statistics.                          *)
C24_AverageSpeed ==
    average_speed.kind # "none" =>
        LET sel == LastDays(download_stats, average_speed.arg)
        IN  /\ average_speed.kind = "returned"
            /\ IsZero(average_speed.value) <=> IsZero(total_seconds(sel))
            /\ ~IsZero(total_seconds(sel)) =>
                   average_speed.value
                       = BigDiv(total_bytes(sel), total_seconds(sel))

(* C25: whatever speed limit is stored and whatever the length of the      *)
(* chunk read (1 to CHUNK_SIZE bytes), the throttle computation of a       *)
(* worker neither overflows nor divides by zero: no worker panics.         *)
C25_ThrottleNeverPanics == throttle.kind # "panicked"

(* A step that spawned a worker for the key. *)
StartedNow(k) == Len(workers'[k]) > Len(workers[k])
EligibleAfter(item) ==
    Eligible(item, active_downloads', paused_downloads', cancelled')

(* C26: the dispatcher starts items in the order of the queue: when it     *)
(* starts an item, no item inserted earlier is left eligible and           *)
(* unstarted, and the key of a started item is in the queue and marked     *)
(* neither paused nor cancelled.                                           *)
C26_DispatchInOrder ==
    [][\A k \in Keys : StartedNow(k) =>
          /\ k \in KeysOf(queue')
          /\ paused_downloads'[k] = NotPaused
          /\ k \notin cancelled'
          /\ \A j \in 1..(IndexOf(queue', k) - 1) :
                 ~EligibleAfter(queue'[j])]_vars

(* Reached: the second item of the queue has just been started, the first  *)
(* one being active, and a third one waits behind it.                      *)
C26_Witness ==
    /\ Len(queue) >= 3
    /\ queue[1].remote_file \in active_downloads
    /\ \E w \in 1..Len(workers[queue[2].remote_file]) :
           workers[queue[2].remote_file][w].pc = "connect"
    /\ Eligible(queue[3], active_downloads, paused_downloads, cancelled)

(* A worker of the key passes its pause and cancel probes into a chunk. *)
EntersChunk(k) ==
    \E i \in 1..Len(workers[k]) :
        /\ At(k, i, "check")
        /\ Len(workers'[k]) = Len(workers[k])
        /\ workers'[k][i].pc = "chunk"

(* C27: Cancel(p) takes p out of the engine's queue whatever its state;    *)
(* a worker of a cancelled p starts no further chunk once it reaches its   *)
(* probes, it ends by sending TaskDone, and when that TaskDone is handled  *)
(* p leaves the active set.                                                *)
C27_CancelStopsWorker ==
    /\ [][\A k \in Keys : Handles("Cancel", k) =>
              (k \notin KeysOf(queue') /\ k \in cancelled')]_vars
    /\ [][\A k \in Keys : k \in cancelled => ~EntersChunk(k)]_vars
    /\ [][\A k \in Keys : (k \in cancelled /\ WorkerLeft(k)) =>
              cmd_chan' = Append(cmd_chan, Cmd("TaskDone", k))]_vars
    /\ [][\A k \in Keys : (k \in cancelled /\ Handles("TaskDone", k)) =>
              k \notin active_downloads']_vars

(* floor(n * 1_000_000 / (limit * 1024)), as a number of any size. *)
MinMicros(turn) ==
    BigDiv(BigMulSmall(BigMulSmall(U64Of(turn.bytes_read), MICROS_PER_MILLI),
                       MILLIS_PER_SECOND),
           BigMulSmall(turn.limit_kb, BYTES_PER_KB))

(* The pause slept is the one that makes the turn last min_micros. *)
SleptEnough(outcome) ==
    LET turn == outcome.arg
        elapsed == U64Of(turn.elapsed)
        slept == outcome.value
    IN  IF IsZero(turn.limit_kb) THEN IsZero(slept)
        ELSE LET min_micros == MinMicros(turn)
             IN  /\ BigLessEq(min_micros, BigAdd(elapsed, slept))
                 /\ BigLess(elapsed, min_micros) =>
                        slept = BigSub(min_micros, elapsed)

(* C28: after a chunk of n > 0 bytes under a limit > 0 the Progress comes  *)
(* no earlier than min_micros = floor(n * 1000000 / (limit * 1024))        *)
(* microseconds after the chunk started: the worker has slept min_micros - *)
(* elapsed when elapsed < min_micros; under the limit 0 it has not slept;  *)
(* and the limit applied to a chunk is the one stored when the chunk has   *)
(* been read.  (A turn that panics sends no Progress.)                     *)
C28_ThrottlePerChunk ==
    [][throttle' # throttle =>
          /\ throttle'.arg.limit_kb = speed_limit
          /\ throttle'.kind = "returned" => SleptEnough(throttle')]_vars

(* Reached: a limit of 64 KB/s has been stored, a whole chunk was read in  *)
(* a millisecond and the worker slept the 999 milliseconds missing.        *)
C28_Witness ==
    /\ speed_limit = U64Of(64)
    /\ throttle = Returned(Turn(CHUNK_SIZE, U64Of(64), 1000), U64Of(999000))

(* The queue items waiting: Pending, neither active nor cancelled. *)
Waiting(q, act, cz) ==
    {i \in 1..Len(q) : /\ q[i].status = "Pending"
                       /\ q[i].remote_file \notin act
                       /\ q[i].remote_file \notin cz}

(* C29: handling ResumeAll clears the global pause and empties the whole   *)
(* map of paused keys, and from then on every Pending queue item that is   *)
(* neither active nor cancelled is eligible for dispatch: right after the  *)
(* command whatever had marked it, and later too, as long as no pause      *)
(* command for it has been handled, if it was active at the PauseAll.      *)
C29_ResumeAllClearsPauses ==
    /\ [][(Receives("ResumeAll") /\ cmd_chan' = Tail(cmd_chan)) =>
              /\ ~is_global_paused'
              /\ \A k \in Keys : paused_downloads'[k] = NotPaused
              /\ \A i \in Waiting(queue', active_downloads', cancelled') :
                     EligibleAfter(queue'[i])]_vars
    /\ [](resumedAll =>
             \A i \in Waiting(queue, active_downloads, cancelled) :
                 queue[i].remote_file \in owed =>
                     Eligible(queue[i], active_downloads, paused_downloads,
                              cancelled))

(* The entries of the server that list_dir is to return. *)
Expected(dir) ==
    {RemoteFile(dir.entries[i].name, dir.entries[i].is_dir) :
        i \in {j \in 1..Len(dir.entries) : dir.entries[j].name # Dot}}
FoldersFirst(files) ==
    \A i, j \in 1..Len(files) :
        (files[i].file_type = "Folder" /\ files[j].file_type = "File") => i < j
NamesAscending(files) ==
    \A i, j \in 1..Len(files) :
        (i < j /\ files[i].file_type = files[j].file_type)
            => StrLess(files[i].name, files[j].name)

(* C30: list_dir returns, for every content of the directory, exactly the  *)
(* entries whose name is not "." (".." included when the server lists      *)
(* it), all folders before all files and, within each kind, by name        *)
(* ascending in byte order.                                                *)
C30_ListDirSorted ==
    remote_files.kind # "none" =>
        /\ remote_files.kind = "returned"
        /\ {remote_files.value[i] : i \in 1..Len(remote_files.value)}
               = Expected(remote_files.arg)
        /\ Len(remote_files.value) = Cardinality(Expected(remote_files.arg))
        /\ FoldersFirst(remote_files.value)
        /\ NamesAscending(remote_files.value)

(* The files a scan has to return: the paths that are not folders and      *)
(* whose every ancestor, the root included, is a directory that can be     *)
(* read.                                                                   *)
Reachable(tree) ==
    {path \in Paths \ {Root} :
        /\ tree[path] = "file"
        /\ \A n \in 0..(Len(path) - 1) : tree[SubSeq(path, 1, n)] = "dir"}

ScanEnded == scan.kind \in {"returned", "failed"}

(* C31: recursive_scan ends on every tree, and what it returns are exactly *)
(* the entries that are not folders and are reached from the root through  *)
(* directories that can be read, each once: no folder, no "." or "..",     *)
(* and a directory that cannot be read adds nothing and fails nothing.     *)
C31_ScanReturnsFiles ==
    /\ [](scan.kind = "failed" => server_tree[Root] = "absent")
    /\ [](scan.kind = "returned" =>
            /\ {f.path : f \in {scan.all_files[i] :
                                   i \in 1..Len(scan.all_files)}}
                   = Reachable(server_tree)
            /\ Len(scan.all_files) = Cardinality(Reachable(server_tree))
            /\ \A i \in 1..Len(scan.all_files) :
                   /\ scan.all_files[i].file_type = "File"
                   /\ scan.all_files[i].name \notin {Dot, DotDot}
                   /\ scan.all_files[i].name
                          = scan.all_files[i].path[Len(scan.all_files[i].path)])
    /\ <>ScanEnded

(* A tree with a file below a directory that cannot be read next to a      *)
(* file two levels down has been scanned.                                  *)
C31_Witness ==
    /\ scan.kind = "returned"
    /\ server_tree[<<<<97>>>>] = "unreadable"
    /\ server_tree[<<<<97>>, <<97>>>>] = "file"
    /\ server_tree[<<<<98>>>>] = "dir"
    /\ server_tree[<<<<98>>, <<98>>>>] = "file"
    /\ Len(scan.all_files) = 1

(* C32: at most one worker per key is alive at any time, whatever the      *)
(* order of AddItem, Cancel, Pause, Resume, TaskPaused and TaskDone.       *)
C32_OneWorkerPerKey == \A k \in Keys : Len(workers[k]) <= 1

(* The worker of a cancelled key is still alive when the key is added      *)
(* again.                                                                  *)
C32_Witness ==
    \E k \in Keys :
        /\ Len(workers[k]) = 1
        /\ k \in cancelled
        /\ k \notin KeysOf(queue)
        /\ cmd_chan # <<>>
        /\ Head(cmd_chan).type = "AddItem"
        /\ Head(cmd_chan).key = k

ExitPending(k) ==
    \E i \in 1..Len(cmd_chan) :
        cmd_chan[i].type \in {"TaskPaused", "TaskDone"} /\ cmd_chan[i].key = k
ExitsPending(k) ==
    Cardinality({i \in 1..Len(cmd_chan) :
        cmd_chan[i].type \in {"TaskPaused", "TaskDone"} /\ cmd_chan[i].key = k})

(* C33: a worker's run ends with one exit notification, TaskPaused or      *)
(* TaskDone, that stays in the command channel until it is handled: a key  *)
(* is in the active set exactly while its worker runs or its notification  *)
(* waits in the channel.                                                   *)
C33_ActiveWhileRunning ==
    \A k \in Keys :
        /\ k \in active_downloads <=> (workers[k] # <<>> \/ ExitPending(k))
        /\ Len(workers[k]) + ExitsPending(k) <= 1

(* The dispatcher handles AddItem for a Pending item of key k that has no  *)
(* worker, while a slot is free, the engine is not paused and no item of   *)
(* the queue waits for the slot.                                           *)
AddsAgain(k) ==
    /\ Handles("AddItem", k)
    /\ Head(cmd_chan).item.status = "Pending"
    /\ workers[k] = <<>>
    /\ k \notin active_downloads
    /\ ~ExitPending(k)
    /\ k \notin KeysOf(queue)
    /\ paused_downloads[k] = NotPaused
    /\ HasCapacity(active_downloads)
    /\ ~is_global_paused
    /\ \A j \in 1..Len(queue) :
           ~Eligible(queue[j], active_downloads, paused_downloads, cancelled)

(* C34: an item cancelled with Cancel and added again with AddItem after   *)
(* its worker has exited is accepted into the queue and started.           *)
C34_CancelledItemRestarts ==
    [][\A k \in Keys :
           (AddsAgain(k) /\ k \in cancelled)
               => (k \in KeysOf(queue') /\ StartedNow(k))]_vars

(* C35: once the dispatcher has handled ResumeAll, and no Pause of the key *)
(* and no PauseAll has come after it, a key that was active at the         *)
(* PauseAll and has not been started again is not in the paused map when   *)
(* the system is quiet, however the worker's pause check interleaves.      *)
C35_ResumedNotLeftPaused ==
    (Quiescent /\ resumedAll) =>
        \A k \in owed : paused_downloads[k] = NotPaused

(* C36: dispatch keeps the slots busy: when nothing is left to handle and  *)
(* no worker runs, so that nothing more happens without a new command, no  *)
(* eligible Pending item is waiting while a slot is free and the engine is *)
(* not paused.                                                             *)
C36_WorkConserving ==
    Quiescent =>
        ~(/\ HasCapacity(active_downloads)
          /\ ~is_global_paused
          /\ \E i \in 1..Len(queue) :
                 Eligible(queue[i], active_downloads, paused_downloads,
                          cancelled))

(* The controller takes a Progress event of key k from the event channel.  *)
ReceivesProgress(k) ==
    /\ is_downloading
    /\ event_chan # <<>>
    /\ Head(event_chan).type = "Progress"
    /\ Head(event_chan).key = k
    /\ event_chan' = Tail(event_chan)

(* C37: once the user has paused p (its status is Paused) and the engine   *)
(* has marked p paused, the status of p stays Paused when the Progress     *)
(* event of the chunk that was in flight arrives.                          *)
C37_PausedStaysPaused ==
    [][\A k \in Keys :
           (/\ k \in KeysOf(queue_items)
            /\ ItemOf(queue_items, k).status = "Paused"
            /\ paused_downloads[k] # NotPaused
            /\ ReceivesProgress(k))
               => ItemOf(queue_items', k).status = "Paused"]_vars

(* The dispatcher handles Resume for a key k that the controller shows as  *)
(* resumed, that has no worker, while a slot is free, the engine is not    *)
(* paused and no other item of the queue waits for the slot.               *)
ResumesIdle(k) ==
    /\ Handles("Resume", k)
    /\ k \in KeysOf(queue_items)
    /\ ItemOf(queue_items, k).status = "Downloading"
    /\ workers[k] = <<>>
    /\ k \notin active_downloads
    /\ ~ExitPending(k)
    /\ k \notin cancelled
    /\ HasCapacity(active_downloads)
    /\ ~is_global_paused
    /\ \A j \in 1..Len(queue) :
           queue[j].remote_file # k =>
               ~Eligible(queue[j], active_downloads, paused_downloads,
                         cancelled)

(* C38: after ResumeDownload of an item whose status was Paused, the       *)
(* engine emits Started for it when a slot is free and the engine is not   *)
(* paused, also when the item was Paused in the queue loaded at the start. *)
C38_ResumeStarts ==
    [][\A k \in Keys :
           ResumesIdle(k) => (StartedNow(k) /\ Emitted("Started", k))]_vars

(* The dispatcher takes the command at the head of the channel. *)
Dispatches == cmd_chan # <<>> /\ cmd_chan' = Tail(cmd_chan)
DispatchCommands == {"StartAll", "ResumeAll", "Resume", "AddItem", "TaskDone"}
BytesChanged(k) ==
    /\ k \in KeysOf(queue) \cap KeysOf(queue')
    /\ ItemOf(queue', k).bytes_downloaded # ItemOf(queue, k).bytes_downloaded

(* C39: the queue gains an item only by AddItem and loses one only by      *)
(* Cancel; bytes_downloaded of an item changes only by TaskPaused; the     *)
(* active set gains a key only in a dispatch step, with its worker, and    *)
(* loses one only by TaskPaused or TaskDone of that key; Pause, PauseAll   *)
(* and SetSpeedLimit leave queue and active as they are, and so does       *)
(* every step that is not the dispatcher's.                                *)
C39_EngineFrame ==
    [][/\ KeysOf(queue') \ KeysOf(queue) # {} =>
              /\ Dispatches
              /\ Head(cmd_chan).type = "AddItem"
              /\ KeysOf(queue') \ KeysOf(queue) = {Head(cmd_chan).key}
       /\ KeysOf(queue) \ KeysOf(queue') # {} =>
              /\ Dispatches
              /\ Head(cmd_chan).type = "Cancel"
              /\ KeysOf(queue) \ KeysOf(queue') = {Head(cmd_chan).key}
       /\ \A k \in Keys : BytesChanged(k) => Handles("TaskPaused", k)
       /\ \A k \in active_downloads' \ active_downloads :
              /\ Dispatches
              /\ Head(cmd_chan).type \in DispatchCommands
              /\ StartedNow(k)
       /\ \A k \in active_downloads \ active_downloads' :
              Handles("TaskPaused", k) \/ Handles("TaskDone", k)
       /\ (Dispatches /\ Head(cmd_chan).type
                             \in {"Pause", "PauseAll", "SetSpeedLimit"})
              => UNCHANGED <<queue, active_downloads>>
       /\ ~Dispatches => UNCHANGED <<queue, active_downloads>>]_vars

(* An item added in this session has been started and then paused at an   *)
(* offset that TaskPaused has stored, and the engine is quiet.             *)
C39_Witness ==
    /\ loaded_queue = <<>>
    /\ Quiescent
    /\ active_downloads = {}
    /\ \E i \in 1..Len(queue) : queue[i].bytes_downloaded > 0

(* The schedule with its times kept and its mode and weekdays replaced. *)
AsDaily(config) == [config EXCEPT !.mode = "Daily"]
AsWeekly(config, days) == [config EXCEPT !.mode = "Weekly", !.days = days]
AllDays == {Weekdays[d] : d \in 1..7}

(* C40: for the start and end times and the weekday set of the schedule,   *)
(* and every weekday and time of day, Weekly allows only what Daily        *)
(* allows, Weekly with all seven days enabled allows exactly what Daily    *)
(* allows, and Weekly with no day enabled allows nothing.                  *)
C40_WeeklyWithinDaily ==
    \A now \in Nows :
        /\ is_allowed(AsWeekly(schedule, schedule.days), now)
               => is_allowed(AsDaily(schedule), now)
        /\ is_allowed(AsWeekly(schedule, AllDays), now)
               = is_allowed(AsDaily(schedule), now)
        /\ ~is_allowed(AsWeekly(schedule, {}), now)

(* A Weekly overnight window with all seven days enabled was found closed  *)
(* by one tick and open by the next.                                       *)
C40_Witness ==
    /\ schedule.mode = "Weekly"
    /\ Before(schedule.end_time, schedule.start_time)
    /\ schedule.days = AllDays
    /\ last_schedule_allowed
    /\ ops = 2

====
